---- MODULE Spec2Model ----
(***************************************************************************)
(* Model of the plan -> SQL -> firewall pipeline of the fashion-chatbot    *)
(* SQL agent (app/services/sql_query_plan.py, app/services/sql_validator.py)*)
(*                                                                         *)
(* Python values are tagged records ([k |-> "int", v |-> 42], ...), so     *)
(* that Python's == between values of different types can be evaluated.   *)
(* An optional alias is a string, None and "" both written "" (the code    *)
(* only ever tests aliases for truthiness).                                *)
(* SQL text is represented by the tree sqlglot parses it into: the table   *)
(* references, the EQ nodes of the ON clauses, the predicate nodes of the  *)
(* WHERE clause, whether an aggregate function occurs, and the LIMIT.      *)
(***************************************************************************)
EXTENDS Integers, Sequences, FiniteSets, TLC

VARIABLES pc, plan, query, customer_id, user_id, scoped, built, valRes, scopeRes, fwRes,
          raw, parsed, fixed, refixed, cache, clock, hits, misses, got, req

\* the request taken through the pipeline of run_sql_agent
pipeVars == <<pc, plan, query, customer_id, user_id, scoped, built, valRes, scopeRes, fwRes>>

\* the model output (or constructor arguments) a plan is made from, and the
\* result of making it
parseVars == <<raw, parsed>>

\* the results of validate_and_fix_group_by applied once and twice
fixVars == <<fixed, refixed>>

\* the SQLQueryCache object, the wall clock, and the result of the last get
cacheVars == <<cache, clock, hits, misses, got>>

\* the requests that run_sql_agent is serving
agentVars == <<req>>

vars == <<pipeVars, parseVars, fixVars, cacheVars, agentVars>>

(***************************************************************************)
(* Bounds                                                                  *)
(***************************************************************************)
MaxJoins == 1
MaxFilters == 2
MaxTables == 2
MaxWhere == 2

(***************************************************************************)
(* Program constants                                                       *)
(***************************************************************************)
MAX_LIMIT == 50

FORBIDDEN_TABLE_PREFIXES ==
    <<"finance", "hr", "admin", "analytics", "knowledge", "golden", "canary">>

BLOCKED_EQ_COLUMNS == {"ticket_id", "product_id", "numseq", "ccexpdate"}

(***************************************************************************)
(* Python values                                                           *)
(***************************************************************************)
PyNone == [k |-> "none"]
PyInt(n) == [k |-> "int", v |-> n]
PyBool(b) == [k |-> "bool", v |-> b]
PyStr(s) == [k |-> "str", v |-> s]
PyList(xs) == [k |-> "list", v |-> xs]

\* int(True) = 1, int(False) = 0: the number a bool compares as
NumOf(x) == IF x.k = "bool" THEN (IF x.v THEN 1 ELSE 0) ELSE x.v

\* Python's  a == b  on the values a plan can carry
PyEq(a, b) ==
    IF a.k \in {"int", "bool"} /\ b.k \in {"int", "bool"}
    THEN NumOf(a) = NumOf(b)
    ELSE a = b

(***************************************************************************)
(* str.lower() and str.startswith()                                        *)
(***************************************************************************)
LowerChar(c) ==
    CASE c = "A" -> "a" [] c = "B" -> "b" [] c = "C" -> "c" [] c = "D" -> "d"
      [] c = "E" -> "e" [] c = "F" -> "f" [] c = "G" -> "g" [] c = "H" -> "h"
      [] c = "I" -> "i" [] c = "J" -> "j" [] c = "K" -> "k" [] c = "L" -> "l"
      [] c = "M" -> "m" [] c = "N" -> "n" [] c = "O" -> "o" [] c = "P" -> "p"
      [] c = "Q" -> "q" [] c = "R" -> "r" [] c = "S" -> "s" [] c = "T" -> "t"
      [] c = "U" -> "u" [] c = "V" -> "v" [] c = "W" -> "w" [] c = "X" -> "x"
      [] c = "Y" -> "y" [] c = "Z" -> "z" [] OTHER -> c

RECURSIVE Lower(_)
Lower(s) ==
    IF Len(s) = 0 THEN ""
    ELSE LowerChar(SubSeq(s, 1, 1)) \o Lower(SubSeq(s, 2, Len(s)))

StartsWith(s, prefix) ==
    Len(s) >= Len(prefix) /\ SubSeq(s, 1, Len(prefix)) = prefix

(***************************************************************************)
(* str.strip(), the identifier pattern _IDENT_RE, the placeholder pattern  *)
(***************************************************************************)
CharAt(s, i) == SubSeq(s, i, i)

IsSpace(c) == c \in {" ", "\t", "\n", "\r"}

IsLetter(c) == LowerChar(c) # c \/ c \in {"a", "b", "c", "d", "e", "f", "g", "h", "i", "j", "k", "l", "m", "n", "o", "p", "q", "r", "s", "t", "u", "v", "w", "x", "y", "z"}

IsDigitChar(c) == c \in {"0", "1", "2", "3", "4", "5", "6", "7", "8", "9"}

DigitVal(c) ==
    CASE c = "0" -> 0 [] c = "1" -> 1 [] c = "2" -> 2 [] c = "3" -> 3 [] c = "4" -> 4
      [] c = "5" -> 5 [] c = "6" -> 6 [] c = "7" -> 7 [] c = "8" -> 8 [] c = "9" -> 9
      [] OTHER -> -1

IsDigits(s) ==
    Len(s) > 0 /\ \A i \in 1..Len(s) : DigitVal(SubSeq(s, i, i)) >= 0

RECURSIVE DigitsToInt(_, _)
DigitsToInt(s, acc) ==
    IF Len(s) = 0 THEN acc
    ELSE DigitsToInt(SubSeq(s, 2, Len(s)), 10 * acc + DigitVal(SubSeq(s, 1, 1)))

RECURSIVE LStrip(_)
LStrip(s) ==
    IF Len(s) > 0 /\ IsSpace(CharAt(s, 1)) THEN LStrip(SubSeq(s, 2, Len(s))) ELSE s

RECURSIVE RStrip(_)
RStrip(s) ==
    IF Len(s) > 0 /\ IsSpace(CharAt(s, Len(s))) THEN RStrip(SubSeq(s, 1, Len(s) - 1)) ELSE s

Strip(s) == RStrip(LStrip(s))

\* _IDENT_RE = ^[A-Za-z_][A-Za-z0-9_]*$
IsIdent(token) ==
    /\ Len(token) > 0
    /\ IsLetter(CharAt(token, 1)) \/ CharAt(token, 1) = "_"
    /\ \A i \in 2..Len(token) :
          IsLetter(CharAt(token, i)) \/ IsDigitChar(CharAt(token, i)) \/ CharAt(token, i) = "_"

\* ^[{]+[^}]+[}]+$ : one or more {, then one or more characters other than },
\* then one or more } up to the end
IsPlaceholder(s) ==
    \E i, j \in 1..Len(s) :
        /\ i < j
        /\ j - i >= 2
        /\ \A k \in 1..i : CharAt(s, k) = "{"
        /\ \A k \in (i + 1)..(j - 1) : CharAt(s, k) # "}"
        /\ \A k \in j..Len(s) : CharAt(s, k) = "}"

(***************************************************************************)
(* Results of the functions: a value, or the exception raised              *)
(***************************************************************************)
Ok(x) == [ok |-> TRUE, val |-> x]
Raise(kind, msg) == [ok |-> FALSE, exc |-> kind, msg |-> msg]
NotCalled == [ok |-> FALSE, exc |-> "", msg |-> ""]

\* _safe_ident: the stripped token, or QueryPlanError
_safe_ident(value) ==
    LET token == Strip(value)
    IN IF ~IsIdent(token) THEN Raise("QueryPlanError", "Invalid SQL identifier")
       ELSE Ok(token)

\* '.+'
QuotedText(s) == Len(s) >= 3 /\ CharAt(s, 1) = "'" /\ CharAt(s, Len(s)) = "'"

\* INTERVAL\s*'.+'
IntervalExpr(s) == StartsWith(s, "interval") /\ QuotedText(LStrip(SubSeq(s, 9, Len(s))))

\* (\s*[\+\-]\s*INTERVAL\s*'.+')?\s*$
OptionalIntervalTerm(s) ==
    \/ s = ""
    \/ LET rest == LStrip(s)
       IN /\ Len(rest) > 0
          /\ CharAt(rest, 1) \in {"+", "-"}
          /\ IntervalExpr(LStrip(SubSeq(rest, 2, Len(rest))))

TimeKeywords == {"now()", "current_timestamp", "current_date", "current_time"}

\* _SQL_EXPR_PATTERNS, matched ignoring case against value.strip()
_is_sql_expression(value) ==
    LET s == Lower(Strip(value))
    IN \/ \E kw \in TimeKeywords :
             StartsWith(s, kw) /\ OptionalIntervalTerm(SubSeq(s, Len(kw) + 1, Len(s)))
       \/ IntervalExpr(s)
       \/ /\ StartsWith(s, "date_trunc")
          /\ LET rest == LStrip(SubSeq(s, 11, Len(s)))
             IN Len(rest) >= 2 /\ CharAt(rest, 1) = "(" /\ CharAt(rest, Len(rest)) = ")"

\* str.lstrip("-")
RECURSIVE LStripMinus(_)
LStripMinus(s) ==
    IF Len(s) > 0 /\ CharAt(s, 1) = "-" THEN LStripMinus(SubSeq(s, 2, Len(s))) ELSE s

\* the text int() accepts: digits with at most one sign
IsIntText(s) ==
    \/ IsDigits(s)
    \/ Len(s) > 1 /\ CharAt(s, 1) \in {"-", "+"} /\ IsDigits(SubSeq(s, 2, Len(s)))

IntOfText(s) ==
    IF CharAt(s, 1) = "-" THEN 0 - DigitsToInt(SubSeq(s, 2, Len(s)), 0)
    ELSE IF CharAt(s, 1) = "+" THEN DigitsToInt(SubSeq(s, 2, Len(s)), 0)
    ELSE DigitsToInt(s, 0)

\* int(v): the integer, or ValueError / TypeError
IntOf(v) ==
    CASE v.k = "int" -> Ok(v.v)
      [] v.k = "bool" -> Ok(IF v.v THEN 1 ELSE 0)
      [] v.k = "str" -> IF IsIntText(Strip(v.v)) THEN Ok(IntOfText(Strip(v.v)))
                        ELSE Raise("ValueError", "invalid literal for int()")
      [] OTHER -> Raise("TypeError", "int() argument must be a string or a number")

\* mutant: placeholders are not blocked
_coerce_filter_value_NoBlock(value) ==
    IF value.k # "str" THEN Ok(value)
    ELSE LET stripped == Strip(value.v)
         IN IF _is_sql_expression(value.v) THEN Ok(value)
            ELSE IF IsDigits(LStripMinus(stripped)) /\ IsIntText(stripped)
            THEN Ok(PyInt(IntOfText(stripped)))
            ELSE Ok(value)

_coerce_filter_value(value) ==
    IF value.k # "str" THEN Ok(value)
    ELSE LET stripped == Strip(value.v)
         IN IF IsPlaceholder(stripped)
            THEN Raise("QueryPlanError", "Filter value contains unresolved placeholder")
            ELSE IF _is_sql_expression(value.v) THEN Ok(value)
            ELSE IF IsDigits(LStripMinus(stripped)) /\ IsIntText(stripped)
            THEN Ok(PyInt(IntOfText(stripped)))
            ELSE Ok(value)

(***************************************************************************)
(* Plan records (QueryPlan, JoinSpec, JoinCondition, FilterSpec)           *)
(***************************************************************************)
JoinCondition(lt, lc, rt, rc) ==
    [left_table |-> lt, left_column |-> lc, right_table |-> rt, right_column |-> rc]

JoinSpec(table, alias, on) ==
    [table |-> table, alias |-> alias, join_type |-> "inner", on |-> on]

FilterSpec(table, column, operator, value) ==
    [table |-> table, column |-> column, operator |-> operator, value |-> value]

SelectField(table, column) == [table |-> table, column |-> column, alias |-> ""]

AggregateSpec(func, column) ==
    [func |-> func, table |-> "", column |-> column, alias |-> "", distinct |-> FALSE]

GroupByField(table, column) == [table |-> table, column |-> column]

QueryPlan(base_table, base_alias, select, aggregates, joins, filters) ==
    [base_table |-> base_table, base_alias |-> base_alias,
     select |-> select, aggregates |-> aggregates,
     joins |-> joins, filters |-> filters,
     group_by |-> <<>>, limit |-> MAX_LIMIT, offset |-> PyNone]

(***************************************************************************)
(* Alias map helpers                                                       *)
(***************************************************************************)
\* dict assignment  m[key] = val
DictSet(m, key, val) ==
    [x \in (DOMAIN m) \cup {key} |-> IF x = key THEN val ELSE m[x]]

\* plan.base_alias or plan.base_table ; join.alias or join.table
OrElse(a, b) == IF a # "" THEN a ELSE b

RECURSIVE AliasMapJoins(_, _, _)
AliasMapJoins(m, joins, i) ==
    IF i > Len(joins) THEN m
    ELSE AliasMapJoins(
            DictSet(m, Lower(joins[i].table), OrElse(joins[i].alias, joins[i].table)),
            joins, i + 1)

_build_alias_map(p) ==
    AliasMapJoins(
        DictSet(<<>>, Lower(p.base_table), OrElse(p.base_alias, p.base_table)),
        p.joins, 1)

_resolve(alias_map, table_ref) ==
    IF Lower(table_ref) \in DOMAIN alias_map
    THEN alias_map[Lower(table_ref)]
    ELSE table_ref

tables_in_plan(p) ==
    {Lower(p.base_table)} \cup {Lower(p.joins[i].table) : i \in DOMAIN p.joins}

\* dict.get(key, default)
DictGet(m, key, default) == IF key \in DOMAIN m THEN m[key] ELSE default

_has_filter(p, table_ref, column, operator, value) ==
    LET alias_map == _build_alias_map(p)
        resolved == _resolve(alias_map, table_ref)
    IN \E i \in DOMAIN p.filters :
          /\ Lower(_resolve(alias_map, p.filters[i].table)) = Lower(resolved)
          /\ Lower(p.filters[i].column) = Lower(column)
          /\ p.filters[i].operator = operator
          /\ PyEq(p.filters[i].value, value)

(***************************************************************************)
(* Scope injection                                                         *)
(***************************************************************************)
HasJoinOn(joins, table) == \E i \in DOMAIN joins : Lower(joins[i].table) = table

TicketItemJoin ==
    JoinSpec("ticket_item", "ti", <<JoinCondition("t", "id", "ti", "ticket_id")>>)

ProductJoin ==
    JoinSpec("product", "p", <<JoinCondition("ti", "product_id", "p", "id")>>)

\* lines 629-637: default alias for a ticket / ticket_item base
DefaultBaseAlias(p) ==
    IF Lower(p.base_table) = "ticket" /\ p.base_alias = ""
    THEN [p EXCEPT !.base_alias = "t"]
    ELSE IF Lower(p.base_table) = "ticket_item" /\ p.base_alias = ""
    THEN [p EXCEPT !.base_alias = "ti"]
    ELSE p

\* mutant: only a ticket_item base is replaced
ForceTicketBase_ItemOnly(p, tables) ==
    IF Lower(p.base_table) = "ticket_item"
    THEN [p EXCEPT !.base_table = "ticket", !.base_alias = "t"]
    ELSE p

\* lines 642-665: a ticket_item / product base is replaced by ticket t
ForceTicketBase(p, tables) ==
    IF Lower(p.base_table) \in {"ticket_item", "product"}
    THEN LET j1 == IF tables \cap {"product", "brand", "color", "size"} # {}
                      /\ ~HasJoinOn(p.joins, "ticket_item")
                   THEN <<TicketItemJoin>> \o p.joins
                   ELSE p.joins
             j2 == IF tables \cap {"product", "brand", "color", "size"} # {}
                      /\ ~HasJoinOn(j1, "product")
                   THEN Append(j1, ProductJoin)
                   ELSE j1
         IN [p EXCEPT !.base_table = "ticket", !.base_alias = "t", !.joins = j2]
    ELSE p

IsCustomerIdFilter(f) == Lower(f.column) = "customer_id"

\* mutant: no filter is dropped
CleanFilters_KeepAll(p) == p

\* lines 667-674: only filters on a column named customer_id are kept
CleanFilters(p) ==
    [p EXCEPT !.filters = SelectSeq(p.filters, IsCustomerIdFilter)]

\* lines 681-686, 692-693, 697-698: append table_ref.column = value if absent
EnsureFilter(p, table_ref, column, value) ==
    IF _has_filter(p, table_ref, column, "=", value)
    THEN p
    ELSE [p EXCEPT !.filters = Append(@, FilterSpec(table_ref, column, "=", value))]

inject_mandatory_scope(p, cid, uid) ==
    LET s1 == DefaultBaseAlias(p)
        tables == tables_in_plan(s1)
        alias_map == _build_alias_map(s1)
        s2 == ForceTicketBase(s1, tables)
        s3 == CleanFilters(s2)
    IN IF {"ticket", "ticket_item"} \cap tables # {} /\ cid = PyNone
       THEN Raise("QueryPlanError", "Missing customer scope")
       ELSE
         LET s4 == IF {"ticket", "ticket_item"} \cap tables # {}
                   THEN EnsureFilter(s3, DictGet(alias_map, "ticket", "t"),
                                     "customer_id", cid)
                   ELSE s3
             s5 == IF "customer" \in tables /\ cid # PyNone
                   THEN EnsureFilter(s4, DictGet(alias_map, "customer", "customer"),
                                     "id", cid)
                   ELSE s4
             s6 == IF "user" \in tables /\ uid # PyNone
                   THEN EnsureFilter(s5, DictGet(alias_map, "user", "user"),
                                     "id", uid)
                   ELSE s5
         IN Ok(s6)

(***************************************************************************)
(* Aggregate / GROUP BY corrector                                          *)
(***************************************************************************)
IsNonAggCol(sf) == sf.column # "*"

RECURSIVE SelectToGroupBy(_)
SelectToGroupBy(sel) ==
    IF sel = <<>> THEN <<>>
    ELSE <<GroupByField(Head(sel).table, Head(sel).column)>> \o SelectToGroupBy(Tail(sel))

\* mutant: every non-aggregated select column is appended, present or not
validate_and_fix_group_by_AppendAll(p) ==
    IF p.aggregates = <<>> THEN p
    ELSE IF (\E i \in DOMAIN p.aggregates : p.aggregates[i].func \in {"count", "sum"})
            /\ p.select # <<>>
    THEN [p EXCEPT !.select = <<>>, !.group_by = <<>>]
    ELSE
      LET non_agg_cols == SelectToGroupBy(SelectSeq(p.select, IsNonAggCol))
      IN IF non_agg_cols = <<>> THEN p
         ELSE [p EXCEPT !.group_by = @ \o non_agg_cols]

validate_and_fix_group_by(p) ==
    IF p.aggregates = <<>> THEN p
    ELSE IF (\E i \in DOMAIN p.aggregates : p.aggregates[i].func \in {"count", "sum"})
            /\ p.select # <<>>
    THEN [p EXCEPT !.select = <<>>, !.group_by = <<>>]
    ELSE
      LET non_agg_cols == SelectToGroupBy(SelectSeq(p.select, IsNonAggCol))
          existing_gb == {<<Lower(p.group_by[i].table), Lower(p.group_by[i].column)>> :
                             i \in DOMAIN p.group_by}
          IsMissing(col) == <<Lower(col.table), Lower(col.column)>> \notin existing_gb
          missing == SelectSeq(non_agg_cols, IsMissing)
      IN IF non_agg_cols = <<>> \/ missing = <<>> THEN p
         ELSE [p EXCEPT !.group_by = @ \o missing]

(***************************************************************************)
(* SQL syntax trees                                                        *)
(***************************************************************************)
Col(table, name) == [k |-> "col", table |-> table, name |-> name]
NumLit(n) == [k |-> "num", v |-> n]
StrLit(s) == [k |-> "string", v |-> s]
BoolLit(b) == [k |-> "boolean", v |-> b]
NullLit == [k |-> "null"]
\* an expression written into the text as it stands (NOW(), INTERVAL '...')
RawExpr(s) == [k |-> "expr", v |-> s]

\* a binary predicate  l op r ; for op = "in", r is the sequence of operands
\* and neg says that the In node stands under a Not (NOT IN)
Node(op, l, r) == [op |-> op, neg |-> FALSE, l |-> l, r |-> r]
NotIn(l, r) == [op |-> "in", neg |-> TRUE, l |-> l, r |-> r]

TableRef(name, alias) == [name |-> name, alias |-> alias]

\* group_by is the list of GROUP BY columns; limit and offset are the LIMIT /
\* OFFSET clause that ends the text (PyNone when absent); extra_limit is a
\* further LIMIT clause written after them
Select(tables, on, where, agg, limit) ==
    [kind |-> "select", stmts |-> 1, comment |-> FALSE, keyword |-> FALSE,
     tables |-> tables, on |-> on, where |-> where, agg |-> agg,
     group_by |-> <<>>, limit |-> limit, offset |-> PyNone, extra_limit |-> PyNone]

(***************************************************************************)
(* SQL builder                                                             *)
(***************************************************************************)
LiteralSupported(value) == value.k \in {"none", "bool", "int", "str"}

\* the node sqlglot parses the text _literal(value) into
_literal(value) ==
    CASE value.k = "none" -> NullLit
      [] value.k = "bool" -> BoolLit(value.v)
      [] value.k = "int" -> NumLit(value.v)
      [] value.k = "str" /\ _is_sql_expression(value.v) -> RawExpr(value.v)
      [] OTHER -> StrLit(value.v)

\* _ident: the stripped token (an invalid one makes build_sql_from_plan raise)
_ident(token) == Strip(token)

_qcol(alias_map, table_ref, column) ==
    Col(_ident(_resolve(alias_map, table_ref)), _ident(column))

\* mutant: no lower clamp
Max_Second(a, b) == b

Max(a, b) == IF a >= b THEN a ELSE b
Min(a, b) == IF a <= b THEN a ELSE b

FilterBuildable(f) ==
    CASE f.operator \in {"in", "not in"} ->
            /\ f.value.k = "list"
            /\ f.value.v # <<>>
            /\ \A i \in DOMAIN f.value.v : LiteralSupported(f.value.v[i])
      [] f.operator \in {"is null", "is not null"} -> TRUE
      [] OTHER -> LiteralSupported(f.value)

WhereNode(alias_map, f) ==
    LET lhs == _qcol(alias_map, f.table, f.column)
    IN CASE f.operator = "in" ->
              Node("in", lhs, [i \in DOMAIN f.value.v |-> _literal(f.value.v[i])])
         [] f.operator = "not in" ->
              NotIn(lhs, [i \in DOMAIN f.value.v |-> _literal(f.value.v[i])])
         [] f.operator \in {"is null", "is not null"} ->
              Node(f.operator, lhs, NullLit)
         [] OTHER -> Node(f.operator, lhs, _literal(f.value))

RECURSIVE OnNodes(_, _)
OnNodes(alias_map, joins) ==
    IF joins = <<>> THEN <<>>
    ELSE [i \in DOMAIN Head(joins).on |->
             Node("=",
                  _qcol(alias_map, Head(joins).on[i].left_table, Head(joins).on[i].left_column),
                  _qcol(alias_map, Head(joins).on[i].right_table, Head(joins).on[i].right_column))]
         \o OnNodes(alias_map, Tail(joins))

build_sql_from_plan(p0) ==
    LET p == validate_and_fix_group_by(p0)
        alias_map == _build_alias_map(p)
    IN IF p.base_alias # "" /\ ~_safe_ident(p.base_alias).ok
       THEN Raise("QueryPlanError", "Invalid SQL identifier")
       ELSE IF \E i \in DOMAIN p.joins : p.joins[i].on = <<>>
       THEN Raise("QueryPlanError", "JOIN has no ON conditions.")
       ELSE IF \E i \in DOMAIN p.filters : ~FilterBuildable(p.filters[i])
       THEN Raise("QueryPlanError", "Filter cannot be rendered.")
       ELSE Ok([Select(
                  <<TableRef(p.base_table, _ident(p.base_alias))>>
                      \o [i \in DOMAIN p.joins |-> TableRef(p.joins[i].table, p.joins[i].alias)],
                  OnNodes(alias_map, p.joins),
                  [i \in DOMAIN p.filters |-> WhereNode(alias_map, p.filters[i])],
                  p.aggregates # <<>>,
                  PyInt(Max(1, Min(p.limit, MAX_LIMIT))))
                EXCEPT !.group_by = [i \in DOMAIN p.group_by |->
                                        _qcol(alias_map, p.group_by[i].table, p.group_by[i].column)],
                       !.offset = IF p.offset # PyNone /\ p.offset.v > 0
                                  THEN p.offset ELSE PyNone])

(***************************************************************************)
(* Structural validation                                                   *)
(***************************************************************************)
\* text with nothing but white space
EmptyText == [kind |-> "empty"]

\* the pattern \s+LIMIT\s+(\d+)(?:\s+OFFSET\s+\d+)?\s*$ : the text ends with a
\* LIMIT of digits, optionally followed by an OFFSET of digits
EndsWithLimit(sql) ==
    /\ sql.limit # PyNone /\ sql.limit.v >= 0
    /\ sql.offset = PyNone \/ sql.offset.v >= 0
    /\ sql.extra_limit = PyNone

_enforce_limit_string(sql, max_limit) ==
    IF EndsWithLimit(sql)
    THEN IF sql.limit.v <= max_limit THEN sql
         ELSE [sql EXCEPT !.limit = PyInt(max_limit)]
    ELSE IF sql.limit = PyNone /\ sql.extra_limit = PyNone
    THEN [sql EXCEPT !.limit = PyInt(max_limit)]
    ELSE [sql EXCEPT !.extra_limit = PyInt(max_limit)]

validate_and_prepare(sql) ==
    IF sql = EmptyText THEN Raise("SqlValidationError", "Empty query.")
    ELSE IF sql.comment THEN Raise("SqlValidationError", "SQL comments are not allowed.")
    ELSE IF sql.stmts > 1
    THEN Raise("SqlValidationError", "Only one SELECT statement is allowed.")
    ELSE IF sql.kind # "select"
    THEN Raise("SqlValidationError", "Only SELECT queries are allowed.")
    ELSE IF sql.keyword THEN Raise("SqlValidationError", "Statement type is not allowed.")
    ELSE Ok(_enforce_limit_string(sql, MAX_LIMIT))

(***************************************************************************)
(* Syntax tree helpers                                                     *)
(***************************************************************************)
\* stmt.find_all(exp.EQ), stmt.find_all(exp.In): ON clauses and WHERE clause
AllNodes(sql) == sql.on \o sql.where
EqNodesOf(nodes) == {nodes[i] : i \in {j \in DOMAIN nodes : nodes[j].op = "="}}
InNodesOf(nodes) == {nodes[i] : i \in {j \in DOMAIN nodes : nodes[j].op = "in"}}

TableNames(sql) == {Lower(sql.tables[i].name) : i \in DOMAIN sql.tables}

\* table.alias_or_name
AliasOrName(t) == IF t.alias # "" THEN t.alias ELSE t.name

_table_aliases(sql) ==
    [n \in TableNames(sql) |->
        {n} \cup {Lower(AliasOrName(sql.tables[i])) :
                     i \in {j \in DOMAIN sql.tables : Lower(sql.tables[j].name) = n}}]

\* mutant: the prefix is compared with the name as written
_reject_forbidden_tables_CaseSensitive(sql) ==
    \E i \in DOMAIN sql.tables : \E j \in DOMAIN FORBIDDEN_TABLE_PREFIXES :
        StartsWith(sql.tables[i].name, FORBIDDEN_TABLE_PREFIXES[j])

\* TRUE when the function raises
_reject_forbidden_tables(sql) ==
    \E i \in DOMAIN sql.tables : \E j \in DOMAIN FORBIDDEN_TABLE_PREFIXES :
        StartsWith(Lower(sql.tables[i].name), FORBIDDEN_TABLE_PREFIXES[j])

(***************************************************************************)
(* Filter assertion helpers                                                *)
(***************************************************************************)
_column_matches(e, column_name, table_aliases, allow_unqualified) ==
    /\ e.k = "col"
    /\ Lower(e.name) = Lower(column_name)
    /\ IF Lower(e.table) = "" THEN allow_unqualified
       ELSE Lower(e.table) \in table_aliases

\* int(str(literal.this)); PyNone when int() raises or the node is no Literal
_extract_int_literal(e) ==
    CASE e.k = "num" -> PyInt(e.v)
      [] e.k = "string" -> IF IsDigits(e.v) THEN PyInt(DigitsToInt(e.v, 0)) ELSE PyNone
      [] OTHER -> PyNone

_extract_expected_value_from_eq(n, column_name, table_aliases, allow_unqualified) ==
    IF _column_matches(n.l, column_name, table_aliases, allow_unqualified)
    THEN _extract_int_literal(n.r)
    ELSE IF _column_matches(n.r, column_name, table_aliases, allow_unqualified)
    THEN _extract_int_literal(n.l)
    ELSE PyNone

_extract_expected_values_from_in(n, column_name, table_aliases, allow_unqualified) ==
    IF ~_column_matches(n.l, column_name, table_aliases, allow_unqualified)
    THEN PyNone
    ELSE IF \E i \in DOMAIN n.r : _extract_int_literal(n.r[i]) = PyNone
    THEN PyNone
    ELSE IF n.r = <<>> THEN PyNone
    ELSE PyList([i \in DOMAIN n.r |-> _extract_int_literal(n.r[i])])

\* mutant: a filter naming another value is not rejected
_assert_expected_filter_NoMismatch(sql, expected_value, column_name, table_aliases, allow_unqualified) ==
    LET eqFound == {_extract_expected_value_from_eq(n, column_name, table_aliases,
                                                    allow_unqualified) :
                       n \in EqNodesOf(AllNodes(sql))} \ {PyNone}
        inFound == {_extract_expected_values_from_in(n, column_name, table_aliases,
                                                     allow_unqualified) :
                       n \in InNodesOf(AllNodes(sql))} \ {PyNone}
    IN IF eqFound = {} /\ inFound = {}
       THEN "Query must include a filter"
       ELSE ""

\* the message of the SqlValidationError raised, "" when the function returns
_assert_expected_filter(sql, expected_value, column_name, table_aliases, allow_unqualified) ==
    LET eqFound == {_extract_expected_value_from_eq(n, column_name, table_aliases,
                                                    allow_unqualified) :
                       n \in EqNodesOf(AllNodes(sql))} \ {PyNone}
        inFound == {_extract_expected_values_from_in(n, column_name, table_aliases,
                                                     allow_unqualified) :
                       n \in InNodesOf(AllNodes(sql))} \ {PyNone}
    IN IF \E x \in eqFound : x # expected_value
       THEN "Query must be scoped to"
       ELSE IF \E xs \in inFound : \E i \in DOMAIN xs.v : xs.v[i] # expected_value
       THEN "Query must be scoped to"
       ELSE IF eqFound = {} /\ inFound = {}
       THEN "Query must include a filter"
       ELSE ""

(***************************************************************************)
(* Customer scope enforcement                                              *)
(***************************************************************************)
\* getattr(eq.this, 'name', ''): the column name, or the text of a literal
NameOf(e) ==
    CASE e.k = "col" -> e.name
      [] e.k = "string" -> e.v
      [] OTHER -> ""

IsColumnNamed(e, name) == e.k = "col" /\ Lower(e.name) = name

enforce_customer_scope(sql, cid, uid) ==
    LET alias_map == _table_aliases(sql)
        tables == DOMAIN alias_map
        ticketErr ==
            IF "ticket" \in tables
            THEN _assert_expected_filter(sql, cid, "customer_id",
                                         DictGet(alias_map, "ticket", {"ticket"}), TRUE)
            ELSE ""
        customerErr ==
            IF "customer" \in tables
            THEN _assert_expected_filter(sql, cid, "id",
                                         DictGet(alias_map, "customer", {"customer"}),
                                         Cardinality(tables) = 1)
            ELSE ""
    IN IF sql = EmptyText
       THEN Raise("SqlValidationError", "Could not parse SQL for customer scope check.")
       ELSE IF \E n \in EqNodesOf(AllNodes(sql)) : Lower(NameOf(n.l)) \in BLOCKED_EQ_COLUMNS
       THEN Raise("SqlValidationError", "Invalid filter. Only customer_id is allowed for scoping.")
       ELSE IF "ticket_item" \in tables /\ "ticket" \notin tables
       THEN Raise("SqlValidationError",
                  "Queries using order items must join ticket and filter by customer_id.")
       ELSE IF \E n \in EqNodesOf(sql.where) :
                  IsColumnNamed(n.l, "ticket_id") \/ IsColumnNamed(n.r, "ticket_id")
       THEN Raise("SqlValidationError", "Invalid filter: ticket_id cannot be used directly.")
       ELSE IF "ticket" \in tables /\ cid = PyNone
       THEN Raise("SqlValidationError", "Missing customer context for ticket query.")
       ELSE IF "customer" \in tables /\ cid = PyNone
       THEN Raise("SqlValidationError", "Missing customer context for customer query.")
       ELSE IF ticketErr # "" \/ customerErr # ""
       THEN Raise("SqlValidationError", <<ticketErr, customerErr>>)
       ELSE Ok(sql)

(***************************************************************************)
(* Final SQL firewall                                                      *)
(***************************************************************************)
\* mutant: the scope check is not run for aggregates
_reject_broad_cross_user_aggregates_Never(sql, cid, uid) == FALSE

\* TRUE when the function raises
_reject_broad_cross_user_aggregates(sql, cid, uid) ==
    IF ~sql.agg THEN FALSE
    ELSE IF TableNames(sql) \cap {"ticket", "ticket_item", "customer"} = {} THEN FALSE
    ELSE ~enforce_customer_scope(sql, cid, uid).ok

run_sql_firewall(sql, cid, uid) ==
    IF sql = EmptyText
    THEN Raise("SqlValidationError", "Could not parse SQL for firewall.")
    ELSE IF _reject_forbidden_tables(sql)
    THEN Raise("SqlValidationError", "Table is not allowed.")
    ELSE IF _reject_broad_cross_user_aggregates(sql, cid, uid)
    THEN Raise("SqlValidationError", "Broad aggregate detected without customer scoping")
    ELSE Ok(sql)

(***************************************************************************)
(* Plan construction: the field validators of the pydantic plan models.    *)
(* The argument of a model is a dict (a record whose optional keys may be  *)
(* absent); identifiers in it are strings as written by the caller.        *)
(***************************************************************************)
\* a JSON object, as opposed to a tagged scalar or list
IsDict(x) == "k" \notin DOMAIN x

HasKeys(d, keys) == keys \subseteq DOMAIN d

\* _safe_ident(v) returns
IdentOk(v) == _safe_ident(v).ok

\* v if v == "*" else _safe_ident(v)
StarOrIdentOk(v) == v = "*" \/ IdentOk(v)

StarOrIdent(v) == IF v = "*" THEN v ELSE _safe_ident(v).val

\* _safe_ident(v) if v else v
OptIdentOk(v) == v = "" \/ IdentOk(v)

OptIdent(v) == IF v = "" THEN v ELSE _safe_ident(v).val

AggFuncs == {"count", "sum", "avg", "min", "max"}

JoinTypes == {"inner", "left", "right", "full"}

_FILTER_OPS == {"=", "!=", ">", ">=", "<", "<=", "in", "not in", "like", "ilike", "is null", "is not null"}

ValidJoinCondition(d) ==
    /\ IsDict(d)
    /\ HasKeys(d, {"left_table", "left_column", "right_table", "right_column"})
    /\ IdentOk(d.left_table) /\ IdentOk(d.left_column)
    /\ IdentOk(d.right_table) /\ IdentOk(d.right_column)

MakeJoinCondition(d) ==
    JoinCondition(_safe_ident(d.left_table).val, _safe_ident(d.left_column).val,
                  _safe_ident(d.right_table).val, _safe_ident(d.right_column).val)

ValidSelectField(d) ==
    /\ IsDict(d)
    /\ HasKeys(d, {"table", "column"})
    /\ StarOrIdentOk(d.table) /\ StarOrIdentOk(d.column)
    /\ OptIdentOk(DictGet(d, "alias", ""))

MakeSelectField(d) ==
    [table |-> StarOrIdent(d.table), column |-> StarOrIdent(d.column),
     alias |-> OptIdent(DictGet(d, "alias", ""))]

ValidAggregateSpec(d) ==
    /\ IsDict(d)
    /\ HasKeys(d, {"func"})
    /\ d.func \in AggFuncs
    /\ OptIdentOk(DictGet(d, "table", ""))
    /\ StarOrIdentOk(DictGet(d, "column", "*"))
    /\ OptIdentOk(DictGet(d, "alias", ""))

MakeAggregateSpec(d) ==
    [func |-> d.func, table |-> OptIdent(DictGet(d, "table", "")),
     column |-> StarOrIdent(DictGet(d, "column", "*")),
     alias |-> OptIdent(DictGet(d, "alias", "")),
     distinct |-> DictGet(d, "distinct", FALSE)]

ValidJoinSpec(d) ==
    /\ IsDict(d)
    /\ HasKeys(d, {"table"})
    /\ IdentOk(d.table)
    /\ OptIdentOk(DictGet(d, "alias", ""))
    /\ DictGet(d, "join_type", "inner") \in JoinTypes
    /\ \A i \in DOMAIN DictGet(d, "on", <<>>) : ValidJoinCondition(d.on[i])

MakeJoinSpec(d) ==
    [table |-> _safe_ident(d.table).val, alias |-> OptIdent(DictGet(d, "alias", "")),
     join_type |-> DictGet(d, "join_type", "inner"),
     on |-> [i \in DOMAIN DictGet(d, "on", <<>>) |-> MakeJoinCondition(d.on[i])]]

ValidFilterSpec(d) ==
    /\ IsDict(d)
    /\ HasKeys(d, {"table", "column", "operator"})
    /\ IdentOk(d.table) /\ IdentOk(d.column)
    /\ d.operator \in _FILTER_OPS

MakeFilterSpec(d) ==
    FilterSpec(_safe_ident(d.table).val, _safe_ident(d.column).val, d.operator,
               DictGet(d, "value", PyNone))

ValidGroupByField(d) ==
    /\ IsDict(d)
    /\ HasKeys(d, {"table", "column"})
    /\ IdentOk(d.table) /\ IdentOk(d.column)

MakeGroupByField(d) == GroupByField(_safe_ident(d.table).val, _safe_ident(d.column).val)

\* QueryPlan._vlimit
_vlimit(v) == IF v = PyNone THEN MAX_LIMIT ELSE Max(1, Min(v.v, MAX_LIMIT))

\* Optional[int]
IsOptionalInt(v) == v.k \in {"none", "int"}

\* every validator of QueryPlan and of its sub-records returns; base_alias
\* has no validator
ValidQueryPlan(data) ==
    /\ HasKeys(data, {"base_table"})
    /\ IdentOk(data.base_table)
    /\ \A i \in DOMAIN DictGet(data, "select", <<>>) : ValidSelectField(data.select[i])
    /\ \A i \in DOMAIN DictGet(data, "aggregates", <<>>) : ValidAggregateSpec(data.aggregates[i])
    /\ \A i \in DOMAIN DictGet(data, "joins", <<>>) : ValidJoinSpec(data.joins[i])
    /\ \A i \in DOMAIN DictGet(data, "filters", <<>>) : ValidFilterSpec(data.filters[i])
    /\ \A i \in DOMAIN DictGet(data, "group_by", <<>>) : ValidGroupByField(data.group_by[i])
    /\ IsOptionalInt(DictGet(data, "limit", PyNone))
    /\ IsOptionalInt(DictGet(data, "offset", PyNone))

\* QueryPlan(**data) / QueryPlan.model_validate(data)
model_validate(data) ==
    IF ~ValidQueryPlan(data) THEN Raise("ValidationError", "Invalid query plan")
    ELSE Ok([base_table |-> _safe_ident(data.base_table).val,
             base_alias |-> DictGet(data, "base_alias", ""),
             select |-> [i \in DOMAIN DictGet(data, "select", <<>>) |-> MakeSelectField(data.select[i])],
             aggregates |-> [i \in DOMAIN DictGet(data, "aggregates", <<>>) |-> MakeAggregateSpec(data.aggregates[i])],
             joins |-> [i \in DOMAIN DictGet(data, "joins", <<>>) |-> MakeJoinSpec(data.joins[i])],
             filters |-> [i \in DOMAIN DictGet(data, "filters", <<>>) |-> MakeFilterSpec(data.filters[i])],
             group_by |-> [i \in DOMAIN DictGet(data, "group_by", <<>>) |-> MakeGroupByField(data.group_by[i])],
             limit |-> IF "limit" \in DOMAIN data THEN _vlimit(data.limit) ELSE MAX_LIMIT,
             offset |-> DictGet(data, "offset", PyNone)])

(***************************************************************************)
(* Parsing the model output into a plan                                    *)
(*                                                                         *)
(* A model output is represented by what the scanners of _json_candidates  *)
(* find in it: the top-level brace-balanced objects of the text in text    *)
(* order (each the dict json.loads gives for it, or Malformed when         *)
(* json.loads fails), which of them stand alone in a ``` fenced block, and *)
(* whether there is other text around them. JSON lists are sequences;      *)
(* the list-valued keys of a payload are lists or absent, their items are  *)
(* dicts or tagged scalars, and JOIN conditions are dicts.                 *)
(***************************************************************************)
Malformed == [k |-> "malformed"]

BlankOutput == [blank |-> TRUE, prose |-> FALSE, objects |-> <<>>, fenced |-> <<>>]

Output(prose, objects, fenced) ==
    [blank |-> FALSE, prose |-> prose, objects |-> objects, fenced |-> fenced]

\* the candidate strings, each as what json.loads makes of it after
\* _cleanup_json_candidate: the whole text, the fenced blocks, the first
\* balanced object, all balanced objects
_json_candidates(text) ==
    <<IF Len(text.objects) = 1 /\ ~text.prose THEN text.objects[1] ELSE Malformed>>
    \o [i \in DOMAIN text.fenced |-> text.objects[text.fenced[i]]]
    \o (IF text.objects # <<>> THEN <<text.objects[1]>> ELSE <<>>)
    \o text.objects

_extract_json(text) ==
    IF text.blank THEN Raise("QueryPlanError", "Query plan was empty.")
    ELSE LET found == SelectSeq(_json_candidates(text), IsDict)
         IN IF found # <<>> THEN Ok(found)
            ELSE Raise("QueryPlanError", "Query plan response did not contain a JSON object.")

\* lines 511-515: a list value is coerced element by element
CoerceRawVal(raw_val) ==
    IF raw_val.k = "list"
    THEN IF \E i \in DOMAIN raw_val.v : ~_coerce_filter_value(raw_val.v[i]).ok
         THEN Raise("QueryPlanError", "Filter value contains unresolved placeholder")
         ELSE Ok(PyList([i \in DOMAIN raw_val.v |-> _coerce_filter_value(raw_val.v[i]).val]))
    ELSE _coerce_filter_value(raw_val)

\* lines 503-516, one item of data["filters"]
NormalizeFilter(f, data) ==
    IF ~IsDict(f) THEN Ok(f)
    ELSE LET f1 == IF "table" \notin DOMAIN f /\ "base_alias" \in DOMAIN data
                   THEN DictSet(f, "table", data.base_alias)
                   ELSE f
         IN IF "value" \notin DOMAIN f1 THEN Ok(f1)
            ELSE LET c == CoerceRawVal(f1.value)
                 IN IF c.ok THEN Ok(DictSet(f1, "value", c.val)) ELSE c

\* _normalize_join_on_condition for a dict condition without the keys
\* condition / on / expr: kept when it has the four keys, dropped otherwise
IsFullCondition(cond) ==
    IsDict(cond) /\ HasKeys(cond, {"left_table", "left_column", "right_table", "right_column"})

_normalize_joins(joins) ==
    LET IsJoinDict(j) == IsDict(j)
        dicts == SelectSeq(joins, IsJoinDict)
    IN [i \in DOMAIN dicts |->
           DictSet(dicts[i], "on", SelectSeq(DictGet(dicts[i], "on", <<>>), IsFullCondition))]

\* lines 536-539
IsStarGroupBy(item) == IsDict(item) /\ Strip(DictGet(item, "column", "")) = "*"

_normalize_query_plan_payload(payload) ==
    LET filters == DictGet(payload, "filters", <<>>)
        coerced == [i \in DOMAIN filters |-> NormalizeFilter(filters[i], payload)]
        NotStar(item) == ~IsStarGroupBy(item)
        limit == DictGet(payload, "limit", PyInt(MAX_LIMIT))
        offset == DictGet(payload, "offset", PyNone)
        d1 == DictSet(payload, "select", DictGet(payload, "select", <<>>))
        d2 == DictSet(d1, "aggregates", DictGet(payload, "aggregates", <<>>))
        d3 == DictSet(d2, "joins", _normalize_joins(DictGet(payload, "joins", <<>>)))
        d4 == DictSet(d3, "filters", [i \in DOMAIN coerced |-> coerced[i].val])
        d5 == DictSet(d4, "group_by", SelectSeq(DictGet(payload, "group_by", <<>>), NotStar))
        d6 == DictSet(d5, "limit",
                      IF limit # PyNone /\ IntOf(limit).ok THEN PyInt(IntOf(limit).val)
                      ELSE PyInt(MAX_LIMIT))
        d7 == DictSet(d6, "offset",
                      IF offset # PyNone /\ IntOf(offset).ok THEN PyInt(IntOf(offset).val)
                      ELSE PyNone)
    IN IF \E i \in DOMAIN coerced : ~coerced[i].ok
       THEN Raise("QueryPlanError", "Filter value contains unresolved placeholder")
       ELSE Ok(d7)

\* the loop of parse_query_plan: a QueryPlanError of the normaliser is not
\* caught, a ValidationError moves on to the next payload
RECURSIVE TryPayloads(_)
TryPayloads(payloads) ==
    IF payloads = <<>> THEN Raise("QueryPlanError", "Invalid query plan")
    ELSE LET normalised == _normalize_query_plan_payload(Head(payloads))
         IN IF ~normalised.ok THEN normalised
            ELSE IF model_validate(normalised.val).ok THEN model_validate(normalised.val)
            ELSE TryPayloads(Tail(payloads))

parse_query_plan(text) ==
    LET payloads == _extract_json(text)
    IN IF ~payloads.ok THEN payloads ELSE TryPayloads(payloads.val)

(***************************************************************************)
(* The workflow of run_sql_agent: from a reply of the model to SQL that    *)
(* has passed the three checks                                             *)
(***************************************************************************)
max_correct_attempts_Three == 2 + 1

max_correct_attempts == 2

\* what the model answers to a prompt: a text, nothing, or the call raises
TextReply(text) == [kind |-> "text", text |-> text]
EmptyReply == [kind |-> "empty"]
FailedCall == [kind |-> "raise"]

\* _generate_plan, lines 227-230: the select list of a parsed plan with
\* aggregates and no group_by is cleared
ProactiveFix(p) ==
    IF p.aggregates # <<>> /\ p.select # <<>> /\ p.group_by = <<>>
    THEN [p EXCEPT !.select = <<>>]
    ELSE p

\* F of the value of x, the value being computed once
Then(x, F(_)) == CHOOSE y \in {F(z) : z \in {x}} : TRUE

\* _generate_json_plan and _generate_corrected_plan from the reply of the
\* model on; made is what parse_query_plan returns for the text of a reply
_generate_json_plan(reply, made) ==
    CASE reply.kind = "raise" -> Raise("Exception", "chat failed")
      [] reply.kind = "empty" -> Raise("QueryPlanError", "LLM returned an empty response.")
      [] OTHER -> IF made.ok THEN Ok(ProactiveFix(made.val)) ELSE made

_generate_corrected_plan(reply, made) ==
    CASE reply.kind = "raise" -> Raise("Exception", "chat failed")
      [] reply.kind = "empty" -> Raise("QueryPlanError", "LLM returned an empty correction.")
      [] OTHER -> made

\* mutant: the firewall is left out
PlanToSql_NoFirewall(generated, cid, uid, plan0, sql0, direct) ==
    Then(generated, LAMBDA made :
      IF ~made.ok THEN [plan |-> plan0, sql |-> sql0, exc |-> made]
      ELSE Then(inject_mandatory_scope(made.val, cid, uid), LAMBDA injected :
        IF ~injected.ok THEN [plan |-> made.val, sql |-> sql0, exc |-> injected]
        ELSE Then(validate_and_fix_group_by(injected.val), LAMBDA grouped :
          Then(build_sql_from_plan(grouped), LAMBDA candidate :
            IF ~candidate.ok THEN [plan |-> grouped, sql |-> sql0, exc |-> candidate]
            ELSE Then(validate_and_prepare(candidate.val), LAMBDA prepared :
              IF ~prepared.ok
              THEN [plan |-> grouped, sql |-> IF direct THEN candidate.val ELSE sql0, exc |-> prepared]
              ELSE Then(enforce_customer_scope(prepared.val, cid, uid), LAMBDA scope :
                IF ~scope.ok THEN [plan |-> grouped, sql |-> prepared.val, exc |-> scope]
                ELSE [plan |-> grouped, sql |-> scope.val, exc |-> Ok(scope.val)]))))))

\* one pass through inject, GROUP BY fix, build, validate, scope check and
\* firewall: the values of the variables plan and sql after it and what was
\* raised (Ok when nothing was).  In the first loop the built text is held in
\* sql_candidate and sql is assigned from validate_and_prepare on; in the
\* correction after a failed execution sql is assigned the built text itself.
PlanToSql(generated, cid, uid, plan0, sql0, direct) ==
    Then(generated, LAMBDA made :
      IF ~made.ok THEN [plan |-> plan0, sql |-> sql0, exc |-> made]
      ELSE Then(inject_mandatory_scope(made.val, cid, uid), LAMBDA injected :
        IF ~injected.ok THEN [plan |-> made.val, sql |-> sql0, exc |-> injected]
        ELSE Then(validate_and_fix_group_by(injected.val), LAMBDA grouped :
          Then(build_sql_from_plan(grouped), LAMBDA candidate :
            IF ~candidate.ok THEN [plan |-> grouped, sql |-> sql0, exc |-> candidate]
            ELSE Then(validate_and_prepare(candidate.val), LAMBDA prepared :
              IF ~prepared.ok
              THEN [plan |-> grouped, sql |-> IF direct THEN candidate.val ELSE sql0, exc |-> prepared]
              ELSE Then(enforce_customer_scope(prepared.val, cid, uid), LAMBDA scope :
                IF ~scope.ok THEN [plan |-> grouped, sql |-> prepared.val, exc |-> scope]
                ELSE Then(run_sql_firewall(scope.val, cid, uid), LAMBDA safe :
                  IF ~safe.ok THEN [plan |-> grouped, sql |-> scope.val, exc |-> safe]
                  ELSE [plan |-> grouped, sql |-> safe.val, exc |-> Ok(safe.val)])))))))

(***************************************************************************)
(* The text of a statement, as far as its tree records it (the select list *)
(* is a row count for an aggregate query and the star otherwise), and the  *)
(* replies of the model that the workflow is run on                        *)
(***************************************************************************)
DigitChars == <<"0", "1", "2", "3", "4", "5", "6", "7", "8", "9">>

\* str(n) of a non-negative integer (the tenant id inside the f-string of
\* the cache key, a literal of a statement)
RECURSIVE IntToStr(_)
IntToStr(n) ==
    IF n < 10 THEN DigitChars[n + 1] ELSE IntToStr(n \div 10) \o DigitChars[(n % 10) + 1]

RECURSIVE JoinStrings(_, _)
JoinStrings(parts, sep) ==
    IF parts = <<>> THEN ""
    ELSE IF Len(parts) = 1 THEN parts[1]
    ELSE parts[1] \o sep \o JoinStrings(Tail(parts), sep)

ExprText(e) ==
    CASE e.k = "col" -> IF e.table = "" THEN e.name ELSE e.table \o "." \o e.name
      [] e.k = "num" -> IntToStr(e.v)
      [] e.k = "string" -> "'" \o e.v \o "'"
      [] e.k = "boolean" -> IF e.v THEN "TRUE" ELSE "FALSE"
      [] e.k = "null" -> "NULL"
      [] OTHER -> e.v

NodeText(n) ==
    IF n.op = "in"
    THEN ExprText(n.l) \o (IF n.neg THEN " NOT IN (" ELSE " IN (")
         \o JoinStrings([i \in DOMAIN n.r |-> ExprText(n.r[i])], ", ") \o ")"
    ELSE ExprText(n.l) \o " " \o n.op \o " " \o ExprText(n.r)

TableText(t) == IF t.alias = "" THEN t.name ELSE t.name \o " AS " \o t.alias

StatementText(sql) ==
    "SELECT " \o (IF sql.agg THEN "COUNT(*)" ELSE "*")
    \o " FROM " \o JoinStrings([i \in DOMAIN sql.tables |-> TableText(sql.tables[i])], " JOIN ")
    \o (IF sql.on = <<>> THEN ""
        ELSE " ON " \o JoinStrings([i \in DOMAIN sql.on |-> NodeText(sql.on[i])], " AND "))
    \o (IF sql.where = <<>> THEN ""
        ELSE " WHERE " \o JoinStrings([i \in DOMAIN sql.where |-> NodeText(sql.where[i])], " AND "))
    \o (IF sql.group_by = <<>> THEN ""
        ELSE " GROUP BY " \o JoinStrings([i \in DOMAIN sql.group_by |-> ExprText(sql.group_by[i])], ", "))
    \o (IF sql.limit = PyNone THEN "" ELSE " LIMIT " \o IntToStr(sql.limit.v))
    \o (IF sql.offset = PyNone THEN "" ELSE " OFFSET " \o IntToStr(sql.offset.v))

\* the plans the model writes: the tickets, their number, an unreadable
\* text, a join without conditions, the products, a report table
ListPlan == [base_table |-> "ticket", base_alias |-> "t", select |-> <<[table |-> "t", column |-> "id"]>>]

CountPlan == [base_table |-> "ticket", base_alias |-> "t", aggregates |-> <<[func |-> "count", column |-> "*"]>>]

BareJoinPlan == [base_table |-> "ticket", base_alias |-> "t", select |-> <<[table |-> "t", column |-> "id"]>>, joins |-> <<[table |-> "brand", alias |-> "b", on |-> <<>>]>>]

ProductPlan == [base_table |-> "product", base_alias |-> "p", select |-> <<[table |-> "p", column |-> "name"]>>]

ReportPlan == [base_table |-> "finance_report", base_alias |-> "f", select |-> <<[table |-> "f", column |-> "total"]>>]

Replies ==
    << TextReply(Output(FALSE, <<ListPlan>>, <<>>)),
       TextReply(Output(FALSE, <<CountPlan>>, <<>>)),
       TextReply(Output(TRUE, <<ProductPlan>>, <<1>>)),
       TextReply(Output(FALSE, <<ReportPlan>>, <<>>)),
       TextReply(Output(FALSE, <<BareJoinPlan>>, <<>>)),
       TextReply(Output(TRUE, <<>>, <<>>)),
       EmptyReply,
       FailedCall >>

\* the tenants whose requests are run
Tenants == {1, 2}

\* the statements over one table that the replies compile to for the
\* tenants (the tickets of a tenant, their number, the report table), and
\* their texts
WorkflowQueries ==
    {Select(<<TableRef("ticket", "t")>>, <<>>, <<Node("=", Col("t", "customer_id"), NumLit(cid))>>, agg, PyInt(MAX_LIMIT)) : cid \in Tenants, agg \in BOOLEAN}
    \cup {Select(<<TableRef("finance_report", "f")>>, <<>>, <<>>, FALSE, PyInt(MAX_LIMIT))}

WorkflowStatements == {StatementText(sql) : sql \in WorkflowQueries}

(***************************************************************************)
(* The query result cache (SQLQueryCache).  The dict is a sequence of      *)
(* entries in insertion order; an entry is a key with the stored results   *)
(* and the time of the store, in seconds.                                  *)
(***************************************************************************)
\* SQLQueryCache(ttl_seconds=300, max_size=1000) on the scale of the model's clock
CacheTtl == 2

CacheMaxSize == 2

\* re.sub(r'--.*$', '', sql, flags=re.MULTILINE): the rest of the line goes
RECURSIVE SkipToNewline(_)
SkipToNewline(s) ==
    IF Len(s) = 0 \/ CharAt(s, 1) = "\n" THEN s ELSE SkipToNewline(SubSeq(s, 2, Len(s)))

RECURSIVE RemoveLineComments(_)
RemoveLineComments(s) ==
    IF Len(s) = 0 THEN ""
    ELSE IF StartsWith(s, "--") THEN RemoveLineComments(SkipToNewline(s))
    ELSE CharAt(s, 1) \o RemoveLineComments(SubSeq(s, 2, Len(s)))

\* the position of the first occurrence of needle in s, 0 when there is none
Find(s, needle) ==
    LET hits_at == { i \in 1..(Len(s) - Len(needle) + 1) : SubSeq(s, i, i + Len(needle) - 1) = needle }
    IN IF hits_at = {} THEN 0 ELSE CHOOSE i \in hits_at : \A j \in hits_at : i <= j

\* the Python test "needle in s" on two strings
Contains(s, needle) == Len(needle) = 0 \/ Find(s, needle) > 0

\* re.sub(r'/\*.*?\*/', '', sql, flags=re.DOTALL): up to the first closing mark
RECURSIVE RemoveBlockComments(_)
RemoveBlockComments(s) ==
    IF Len(s) = 0 THEN ""
    ELSE LET body == SubSeq(s, 3, Len(s))
             close == Find(body, "*/")
         IN IF StartsWith(s, "/*") /\ close > 0
            THEN RemoveBlockComments(SubSeq(body, close + 2, Len(body)))
            ELSE CharAt(s, 1) \o RemoveBlockComments(SubSeq(s, 2, Len(s)))

\* str.rstrip(';')
RECURSIVE RStripSemicolon(_)
RStripSemicolon(s) ==
    IF Len(s) > 0 /\ CharAt(s, Len(s)) = ";" THEN RStripSemicolon(SubSeq(s, 1, Len(s) - 1)) ELSE s

\* ' '.join(s.split()): the words of s with one space between them
RECURSIVE JoinWords(_)
JoinWords(s) ==
    LET t == Strip(s)
    IN IF Len(t) = 0 THEN ""
       ELSE LET rest == SubSeq(t, 2, Len(t))
            IN IF Len(rest) > 0 /\ IsSpace(CharAt(rest, 1))
               THEN CharAt(t, 1) \o " " \o JoinWords(rest)
               ELSE CharAt(t, 1) \o JoinWords(rest)

_normalize_sql(sql) ==
    LET uncommented == RemoveBlockComments(RemoveLineComments(sql))
    IN JoinWords(RStripSemicolon(Strip(Lower(uncommented))))

\* hashlib.md5(text.encode()).hexdigest(), tabulated for the texts that the
\* cached statements and the workflow's statements give rise to
md5_hexdigest(text) ==
    CASE text = "select 1:1" -> "d78832395cd4cbd10b3af8b126a57a0c"
      [] text = "select 1:2" -> "7373aed6aba0b8a356d42d432c025cbf"
      [] text = "select 2:1" -> "7d5e576c94c72201d8ddf5a5930a5196"
      [] text = "select 2:2" -> "034b94377a449d50e235bca92d988ab6"
      [] text = "select 1" -> "95adb6e77a0884d9e50232cb8c5c969d"
      [] text = "select 2" -> "8222fbf4485048374b8751d04bb6c90a"
      [] text = "select * from ticket as t where t.customer_id = 1 limit 50:1" -> "cf5dd28e0b022b7792f44b9fc2346301"
      [] text = "select * from ticket as t where t.customer_id = 1 limit 50:2" -> "f32edf04509b1ff53eefc4dc56ee3795"
      [] text = "select * from ticket as t where t.customer_id = 2 limit 50:1" -> "7c48b379b5511818cfabe26b7d6e189e"
      [] text = "select * from ticket as t where t.customer_id = 2 limit 50:2" -> "e07e12badb948594e08c0739b94591e2"
      [] text = "select count(*) from ticket as t where t.customer_id = 1 limit 50:1" -> "15337b5c7c6733149d0efda958c84044"
      [] text = "select count(*) from ticket as t where t.customer_id = 1 limit 50:2" -> "edc7b20015e6f622f89aaabe512d61e7"
      [] text = "select count(*) from ticket as t where t.customer_id = 2 limit 50:1" -> "9208c0d564bdf16dfaa8e5d78dc02cc1"
      [] text = "select count(*) from ticket as t where t.customer_id = 2 limit 50:2" -> "9150d907613a2fdb4647d1f85645fc02"
      [] text = "select * from finance_report as f limit 50:1" -> "36a3208518a7df323df3a1a87d3e834b"
      [] text = "select * from finance_report as f limit 50:2" -> "69fa58b5e56b4974bd1b167a57ad279d"

\* the statements whose results are cached by the cache on its own, and
\* the normalized text of each statement, computed once
CachedStatements == {"SELECT 1", "select  1 ; -- one", "select 2"}

NormalizedStatement == [sql \in CachedStatements \cup WorkflowStatements |-> _normalize_sql(sql)]

get_cache_key_NoTenant(sql, cid) ==
    md5_hexdigest(NormalizedStatement[sql])

get_cache_key(sql, cid) ==
    md5_hexdigest(NormalizedStatement[sql] \o ":" \o IntToStr(cid))

\* the position of key in the dict, 0 when the dict does not hold it
KeyIndex(store, key) ==
    IF \E i \in DOMAIN store : store[i].key = key
    THEN CHOOSE i \in DOMAIN store : store[i].key = key
    ELSE 0

\* del self.cache[key] for the key at position i
DelAt(store, i) == SubSeq(store, 1, i - 1) \o SubSeq(store, i + 1, Len(store))

get_Inclusive(store, now, h, m, sql, cid) ==
    LET key == get_cache_key(sql, cid)
        i == KeyIndex(store, key)
    IN IF i # 0 /\ now - store[i].timestamp <= CacheTtl
       THEN [result |-> store[i].results, store |-> store, hits |-> h + 1, misses |-> m,
             log |-> "HIT"]
       ELSE [result |-> PyNone,
             store |-> IF i # 0 THEN DelAt(store, i) ELSE store,
             hits |-> h, misses |-> m + 1,
             log |-> IF i # 0 THEN "Expired entry removed" ELSE ""]

\* get: the result (None on a miss), the dict and the two counters after it,
\* and the line it writes to the log
get(store, now, h, m, sql, cid) ==
    LET key == get_cache_key(sql, cid)
        i == KeyIndex(store, key)
    IN IF i # 0 /\ now - store[i].timestamp < CacheTtl
       THEN [result |-> store[i].results, store |-> store, hits |-> h + 1, misses |-> m,
             log |-> "HIT"]
       ELSE [result |-> PyNone,
             store |-> IF i # 0 THEN DelAt(store, i) ELSE store,
             hits |-> h, misses |-> m + 1,
             log |-> IF i # 0 THEN "Expired entry removed" ELSE ""]

OldestIndex_Last(store) ==
    Len(store)

\* min(self.cache.keys(), key=lambda k: self.cache[k][1]): the first of the
\* entries with the least timestamp
OldestIndex(store) ==
    CHOOSE i \in DOMAIN store :
        /\ \A j \in DOMAIN store : store[i].timestamp <= store[j].timestamp
        /\ \A j \in 1..(i - 1) : store[j].timestamp > store[i].timestamp

set(store, now, sql, cid, results) ==
    LET key == get_cache_key(sql, cid)
        entry == [key |-> key, results |-> results, timestamp |-> now]
        i == KeyIndex(store, key)
        stored == IF i # 0 THEN [store EXCEPT ![i] = entry] ELSE Append(store, entry)
    IN IF Len(stored) > CacheMaxSize
       THEN [store |-> DelAt(stored, OldestIndex(stored)), log |-> "Evicted oldest entry"]
       ELSE [store |-> stored, log |-> "STORED"]

\* the entries that stay: those whose key does not contain ":<customer_id>"
RECURSIVE clear_for_customer(_, _)
clear_for_customer(store, cid) ==
    IF store = <<>> THEN <<>>
    ELSE LET kept == clear_for_customer(Tail(store), cid)
         IN IF Contains(Head(store).key, ":" \o IntToStr(cid)) THEN kept ELSE <<Head(store)>> \o kept

(***************************************************************************)
(* Inputs: plans as the plan generator can emit them, SQL texts as a       *)
(* caller can pass them to the validator functions, caller identities      *)
(***************************************************************************)
\* the subsequences of pool with at most n elements, in the order of pool
RECURSIVE Pick(_, _, _)
Pick(pool, I, i) ==
    IF i > Len(pool) THEN <<>>
    ELSE (IF i \in I THEN <<pool[i]>> ELSE <<>>) \o Pick(pool, I, i + 1)

SubSeqsUpTo(pool, n) ==
    {Pick(pool, I, 1) : I \in {J \in SUBSET (1..Len(pool)) : Cardinality(J) <= n}}

Contexts ==
    { [customer_id |-> PyNone, user_id |-> PyNone],
      [customer_id |-> PyInt(1), user_id |-> PyInt(9)],
      [customer_id |-> PyInt(2), user_id |-> PyNone] }

BaseTables == {"ticket", "ticket_item", "product", "customer", "user"}
BaseAliases == {"", "x"}

JoinPool ==
    << JoinSpec("ticket", "tk", <<JoinCondition("tk", "id", "x", "ticket_id")>>),
       TicketItemJoin,
       JoinSpec("product", "p", <<JoinCondition("p", "id", "ti", "product_id")>>),
       JoinSpec("user", "u", <<JoinCondition("u", "id", "t", "user_id")>>),
       JoinSpec("brand", "b", <<>>) >>

FilterPool ==
    << FilterSpec("t", "customer_id", "=", PyInt(1)),
       FilterSpec("ticket", "Customer_ID", "=", PyInt(2)),
       FilterSpec("t", "customer_id", "=", PyBool(TRUE)),
       FilterSpec("t", "customer_id", "in", PyList(<<PyInt(1)>>)),
       FilterSpec("t", "customer_id", "not in", PyList(<<PyInt(1)>>)),
       FilterSpec("t", "ticket_id", "=", PyInt(5)) >>

Shapes ==
    { [select |-> <<SelectField("t", "id")>>, aggregates |-> <<>>],
      [select |-> <<>>, aggregates |-> <<AggregateSpec("count", "*")>>] }

Plans ==
    { QueryPlan(b, a, sh.select, sh.aggregates, js, fs) :
        b \in BaseTables, a \in BaseAliases, sh \in Shapes,
        js \in SubSeqsUpTo(JoinPool, MaxJoins), fs \in SubSeqsUpTo(FilterPool, MaxFilters) }

NoPlan == [kind |-> "none"]

TablePool ==
    << TableRef("ticket", ""), TableRef("Ticket", "t"), TableRef("ticket_item", "ti"),
       TableRef("customer", "c"), TableRef("user", "u"), TableRef("Finance_Report", "") >>

NodePool ==
    << Node("=", Col("", "customer_id"), NumLit(1)),
       Node("=", NumLit(2), Col("t", "customer_id")),
       Node("in", Col("t", "customer_id"), <<NumLit(1), StrLit("1")>>),
       NotIn(Col("t", "customer_id"), <<NumLit(2)>>),
       Node("=", Col("c", "id"), NumLit(1)),
       Node("=", Col("u", "id"), NumLit(9)),
       Node("=", Col("", "ticket_id"), NumLit(5)) >>

QueryShapes ==
    { [agg |-> FALSE, limit |-> PyInt(100)],
      [agg |-> TRUE, limit |-> PyNone] }

\* SELECT id FROM ticket LIMIT 10, the text the special cases below vary
PlainTicketQuery == Select(<<TableRef("ticket", "")>>, <<>>, <<>>, FALSE, PyInt(10))

RawQueries ==
    { Select(ts, <<>>, ws, sh.agg, sh.limit) :
        ts \in SubSeqsUpTo(TablePool, MaxTables) \ {<<>>},
        ws \in SubSeqsUpTo(NodePool, MaxWhere), sh \in QueryShapes }
    \cup { EmptyText,
           [PlainTicketQuery EXCEPT !.kind = "delete", !.keyword = TRUE],
           [PlainTicketQuery EXCEPT !.comment = TRUE],
           [PlainTicketQuery EXCEPT !.stmts = 2],
           [PlainTicketQuery EXCEPT !.keyword = TRUE] }

(***************************************************************************)
(* State machine: one request, either a plan taken through the pipeline    *)
(* of run_sql_agent (pc = "plan" ... "done"), or an SQL text on which the  *)
(* three validator functions are called directly, one after the other and  *)
(* each on the text itself (pc = "raw")                                    *)
(***************************************************************************)
\* the parts of the state a specification does not use
NoOutput == [kind |-> "none"]

NoParse == raw = NoOutput /\ parsed = NotCalled

NoFix == fixed = NoPlan /\ refixed = NoPlan

NoCache == cache = <<>> /\ clock = 0 /\ hits = 0 /\ misses = 0 /\ got = NotCalled

NoAgent == req = <<>>

Init ==
    /\ \E ctx \in Contexts :
          /\ customer_id = ctx.customer_id
          /\ user_id = ctx.user_id
    /\ \/ pc = "plan" /\ plan \in Plans /\ query = EmptyText
       \/ pc = "raw" /\ plan = NoPlan /\ query \in RawQueries
    /\ scoped = NotCalled
    /\ built = NotCalled
    /\ valRes = NotCalled
    /\ scopeRes = NotCalled
    /\ fwRes = NotCalled
    /\ NoParse
    /\ NoFix
    /\ NoCache
    /\ NoAgent

After(res, next) == IF res.ok THEN next ELSE "failed"

InjectMandatoryScope ==
    /\ pc = "plan"
    /\ scoped' = inject_mandatory_scope(plan, customer_id, user_id)
    /\ pc' = After(scoped', "injected")
    /\ UNCHANGED <<plan, query, customer_id, user_id, built, valRes, scopeRes, fwRes,
                   parseVars, fixVars, cacheVars, agentVars>>

BuildSqlFromPlan ==
    /\ pc = "injected"
    /\ built' = build_sql_from_plan(validate_and_fix_group_by(scoped.val))
    /\ pc' = After(built', "built")
    /\ UNCHANGED <<plan, query, customer_id, user_id, scoped, valRes, scopeRes, fwRes,
                   parseVars, fixVars, cacheVars, agentVars>>

ValidateAndPrepare ==
    /\ \/ pc = "built"
       \/ pc = "raw" /\ valRes = NotCalled
    /\ valRes' = validate_and_prepare(IF pc = "raw" THEN query ELSE built.val)
    /\ pc' = IF pc = "raw" THEN pc ELSE After(valRes', "validated")
    /\ UNCHANGED <<plan, query, customer_id, user_id, scoped, built, scopeRes, fwRes,
                   parseVars, fixVars, cacheVars, agentVars>>

EnforceCustomerScope ==
    /\ \/ pc = "validated"
       \/ pc = "raw" /\ valRes # NotCalled /\ scopeRes = NotCalled
    /\ scopeRes' = enforce_customer_scope(IF pc = "raw" THEN query ELSE valRes.val,
                                          customer_id, user_id)
    /\ pc' = IF pc = "raw" THEN pc ELSE After(scopeRes', "checked")
    /\ UNCHANGED <<plan, query, customer_id, user_id, scoped, built, valRes, fwRes,
                   parseVars, fixVars, cacheVars, agentVars>>

RunSqlFirewall ==
    /\ \/ pc = "checked"
       \/ pc = "raw" /\ scopeRes # NotCalled /\ fwRes = NotCalled
    /\ fwRes' = run_sql_firewall(IF pc = "raw" THEN query ELSE scopeRes.val,
                                 customer_id, user_id)
    /\ pc' = IF pc = "raw" THEN pc ELSE After(fwRes', "done")
    /\ UNCHANGED <<plan, query, customer_id, user_id, scoped, built, valRes, scopeRes,
                   parseVars, fixVars, cacheVars, agentVars>>

Next ==
    \/ InjectMandatoryScope
    \/ BuildSqlFromPlan
    \/ ValidateAndPrepare
    \/ EnforceCustomerScope
    \/ RunSqlFirewall

Spec == Init /\ [][Next]_vars

(***************************************************************************)
(* Second state machine: a plan is made first, by parse_query_plan from a  *)
(* model output or by the QueryPlan constructor from keyword arguments,    *)
(* and then taken through the same pipeline.                               *)
(***************************************************************************)
MaxObjects == 2

\* a key that is not in the dict
Absent == [k |-> "absent"]

SetOpt(d, key, val) == IF val = Absent THEN d ELSE DictSet(d, key, val)

\* all sequences over S of length at most n
SeqsUpTo(S, n) == UNION {[1..m -> S] : m \in 0..n}

IdentStrings ==
    {"t", "Ticket_1", "_x", "1abc", "t; DROP TABLE x", "a-b", "t.id", " t ", "", "*"}

\* a well-formed plan; Placed puts a string into one identifier position
Template ==
    [base_table |-> "ticket", base_alias |-> "t",
     select |-> <<[table |-> "t", column |-> "id", alias |-> "id"]>>,
     aggregates |-> <<[func |-> "max", table |-> "ti", column |-> "quantity", alias |-> "m"]>>,
     joins |-> <<[table |-> "ticket_item", alias |-> "ti",
                  on |-> <<[left_table |-> "t", left_column |-> "id",
                            right_table |-> "ti", right_column |-> "ticket_id"]>>]>>,
     filters |-> <<[table |-> "t", column |-> "customer_id", operator |-> "=",
                    value |-> PyInt(1)]>>,
     group_by |-> <<[table |-> "t", column |-> "id"]>>]

Positions ==
    {<<"base_table">>, <<"base_alias">>,
     <<"select", "table">>, <<"select", "column">>, <<"select", "alias">>,
     <<"aggregates", "table">>, <<"aggregates", "column">>, <<"aggregates", "alias">>,
     <<"joins", "table">>, <<"joins", "alias">>,
     <<"on", "left_table">>, <<"on", "left_column">>,
     <<"on", "right_table">>, <<"on", "right_column">>,
     <<"filters", "table">>, <<"filters", "column">>,
     <<"group_by", "table">>, <<"group_by", "column">>}

Placed(pos, s) ==
    CASE Len(pos) = 1 -> [Template EXCEPT ![pos[1]] = s]
      [] pos[1] = "on" -> [Template EXCEPT !.joins[1].on[1][pos[2]] = s]
      [] OTHER -> [Template EXCEPT ![pos[1]][1][pos[2]] = s]

LimitPool ==
    {Absent, PyNone, PyInt(-5), PyInt(0), PyInt(1), PyInt(7), PyInt(50), PyInt(51), PyInt(1000)}

OffsetPool == {Absent, PyInt(0), PyInt(10)}

LimitTemplate ==
    [base_table |-> "ticket", base_alias |-> "t",
     select |-> <<[table |-> "t", column |-> "id"]>>]

LimitPayloads ==
    {SetOpt(SetOpt(LimitTemplate, "limit", l), "offset", o) : l \in LimitPool, o \in OffsetPool}

\* payloads of a model output: their filter values are what the model wrote
FilterPayload(column, operator, value) ==
    [base_table |-> "ticket", base_alias |-> "t",
     filters |-> <<[column |-> column, operator |-> operator, value |-> value]>>]

ObjectPool ==
    {FilterPayload("customer_id", "=", PyStr("42")),
     FilterPayload("customer_id", "=", PyStr("{customer_id}")),
     FilterPayload("customer_id", "=", PyStr(" {{customer_id}} ")),
     FilterPayload("customer_id", "in", PyList(<<PyInt(1), PyStr("{customer_id}")>>)),
     FilterPayload("customer_id", ">=", PyStr("NOW() - INTERVAL '7 days'")),
     [base_table |-> "ticket; DROP TABLE x"],
     Malformed}

\* the ways the objects can stand in the text: which of them are in fenced
\* blocks, and whether there is prose around them
Layouts(objects) ==
    {Output(prose, objects, fenced) :
        prose \in BOOLEAN,
        fenced \in SubSeqsUpTo([i \in 1..Len(objects) |-> i], Len(objects))}

Kwargs ==
    {[kind |-> "kwargs", position |-> pos, ident |-> s, data |-> Placed(pos, s)] :
        pos \in Positions, s \in IdentStrings}
    \cup {[kind |-> "kwargs", position |-> <<"limit">>, ident |-> "", data |-> d] :
             d \in LimitPayloads}

ModelOutputs ==
    {[kind |-> "text", text |-> t] :
        t \in UNION {Layouts(objects) : objects \in SeqsUpTo(ObjectPool, MaxObjects)}}
    \cup {[kind |-> "text", text |-> BlankOutput]}
    \cup {[kind |-> "text", text |-> Output(FALSE, <<d>>, <<>>)] : d \in LimitPayloads}

PlanInit ==
    /\ \E ctx \in Contexts :
          /\ customer_id = ctx.customer_id
          /\ user_id = ctx.user_id
    /\ pc = "output"
    /\ raw \in Kwargs \cup ModelOutputs
    /\ parsed = NotCalled
    /\ plan = NoPlan
    /\ query = EmptyText
    /\ scoped = NotCalled
    /\ built = NotCalled
    /\ valRes = NotCalled
    /\ scopeRes = NotCalled
    /\ fwRes = NotCalled
    /\ NoFix
    /\ NoCache
    /\ NoAgent


ParseQueryPlan ==
    /\ pc = "output"
    /\ raw.kind = "text"
    /\ parsed' = parse_query_plan(raw.text)
    /\ plan' = IF parsed'.ok THEN ProactiveFix(parsed'.val) ELSE plan
    /\ pc' = After(parsed', "plan")
    /\ UNCHANGED <<query, customer_id, user_id, scoped, built, valRes, scopeRes, fwRes,
                   raw, fixVars, cacheVars, agentVars>>

ConstructQueryPlan ==
    /\ pc = "output"
    /\ raw.kind = "kwargs"
    /\ parsed' = model_validate(raw.data)
    /\ plan' = IF parsed'.ok THEN parsed'.val ELSE plan
    /\ pc' = After(parsed', "plan")
    /\ UNCHANGED <<query, customer_id, user_id, scoped, built, valRes, scopeRes, fwRes,
                   raw, fixVars, cacheVars, agentVars>>

PlanNext ==
    \/ ParseQueryPlan
    \/ ConstructQueryPlan
    \/ Next

PlanSpec == PlanInit /\ [][PlanNext]_vars

(***************************************************************************)
(* Third state machine: the aggregate / GROUP BY corrector on its own, as  *)
(* test_sql_group_by_fix.py uses it: a plan is corrected, the result is    *)
(* corrected once more, and the corrected plan is compiled. The select     *)
(* entries name a table (the wildcard is a column).                        *)
(***************************************************************************)
MaxSelect == 2
MaxGroupBy == 2

SelectPool ==
    << SelectField("t", "id"), SelectField("t", "customer_id"),
       SelectField("t", "*"), SelectField("T", "ID") >>

AggregatePool ==
    { <<>>, <<AggregateSpec("count", "*")>>, <<AggregateSpec("max", "total")>>,
      <<AggregateSpec("sum", "total")>>,
      <<AggregateSpec("max", "total"), AggregateSpec("count", "*")>> }

GroupByPool ==
    << GroupByField("t", "id"), GroupByField("t", "customer_id"), GroupByField("t", "status") >>

GroupByPlans ==
    { [QueryPlan("ticket", "t", sel, aggs, <<>>,
                 <<FilterSpec("t", "customer_id", "=", PyInt(1))>>)
          EXCEPT !.group_by = gb] :
        sel \in SubSeqsUpTo(SelectPool, MaxSelect), aggs \in AggregatePool,
        gb \in SubSeqsUpTo(GroupByPool, MaxGroupBy) }

FixInit ==
    /\ pc = "fix"
    /\ plan \in GroupByPlans
    /\ fixed = NoPlan
    /\ refixed = NoPlan
    /\ built = NotCalled
    /\ query = EmptyText
    /\ customer_id = PyInt(1)
    /\ user_id = PyNone
    /\ scoped = NotCalled
    /\ valRes = NotCalled
    /\ scopeRes = NotCalled
    /\ fwRes = NotCalled
    /\ NoParse
    /\ NoCache
    /\ NoAgent

FixGroupBy ==
    /\ pc = "fix"
    /\ fixed' = validate_and_fix_group_by(plan)
    /\ pc' = "fixed"
    /\ UNCHANGED <<plan, query, customer_id, user_id, scoped, built, valRes, scopeRes, fwRes,
                   refixed, parseVars, cacheVars, agentVars>>

FixGroupByAgain ==
    /\ pc = "fixed"
    /\ refixed' = validate_and_fix_group_by(fixed)
    /\ pc' = "refixed"
    /\ UNCHANGED <<plan, query, customer_id, user_id, scoped, built, valRes, scopeRes, fwRes,
                   fixed, parseVars, cacheVars, agentVars>>

BuildFixed ==
    /\ pc = "refixed"
    /\ built' = build_sql_from_plan(fixed)
    /\ pc' = After(built', "compiled")
    /\ UNCHANGED <<plan, query, customer_id, user_id, scoped, valRes, scopeRes, fwRes,
                   fixVars, parseVars, cacheVars, agentVars>>

FixNext ==
    \/ FixGroupBy
    \/ FixGroupByAgain
    \/ BuildFixed

FixSpec == FixInit /\ [][FixNext]_vars

(***************************************************************************)
(* Vocabulary of the properties                                            *)
(***************************************************************************)
\* the names by which the table is referenced in the SQL
AliasesIn(sql, table) ==
    {table} \cup {Lower(AliasOrName(sql.tables[i])) :
                     i \in {j \in DOMAIN sql.tables : Lower(sql.tables[j].name) = table}}

IsIntLit(e) == e.k = "num" \/ (e.k = "string" /\ IsDigits(e.v))
IntLitVal(e) == IF e.k = "num" THEN e.v ELSE DigitsToInt(e.v, 0)

\* e is the column of the table, qualified by one of its names or unqualified
IsScopeColumn(e, sql, table, column) ==
    /\ e.k = "col"
    /\ Lower(e.name) = column
    /\ (e.table = "" \/ Lower(e.table) \in AliasesIn(sql, table))

\* the sets of integers with which the EQ and IN nodes compare table.column
ScopeComparisons(sql, table, column) ==
    { {IntLitVal(n.r)} :
        n \in {m \in EqNodesOf(AllNodes(sql)) :
                  IsScopeColumn(m.l, sql, table, column) /\ IsIntLit(m.r)} }
    \cup
    { {IntLitVal(n.l)} :
        n \in {m \in EqNodesOf(AllNodes(sql)) :
                  IsScopeColumn(m.r, sql, table, column) /\ IsIntLit(m.l)} }
    \cup
    { {IntLitVal(n.r[i]) : i \in DOMAIN n.r} :
        n \in {m \in InNodesOf(AllNodes(sql)) :
                  /\ IsScopeColumn(m.l, sql, table, column)
                  /\ m.r # <<>>
                  /\ \A i \in DOMAIN m.r : IsIntLit(m.r[i])} }

\* an equality  alias.customer_id = c  with c an integer literal, not negated
HasTenantEquality(sql, c) ==
    \E n \in EqNodesOf(AllNodes(sql)) :
        \/ IsScopeColumn(n.l, sql, "ticket", "customer_id") /\ n.r = NumLit(c)
        \/ IsScopeColumn(n.r, sql, "ticket", "customer_id") /\ n.l = NumLit(c)

\* no EQ or IN node at all relates a column customer_id or id to the value c
MentionsTenant(sql, cid) ==
    /\ cid # PyNone
    /\ \E n \in EqNodesOf(AllNodes(sql)) \cup InNodesOf(AllNodes(sql)) :
          /\ \/ n.l.k = "col" /\ Lower(n.l.name) \in {"customer_id", "id"}
             \/ n.op = "=" /\ n.r.k = "col" /\ Lower(n.r.name) \in {"customer_id", "id"}
          /\ \/ n.op = "=" /\ IsIntLit(n.r) /\ IntLitVal(n.r) = cid.v
             \/ n.op = "=" /\ IsIntLit(n.l) /\ IntLitVal(n.l) = cid.v
             \/ n.op = "in" /\ \E i \in DOMAIN n.r :
                                   IsIntLit(n.r[i]) /\ IntLitVal(n.r[i]) = cid.v

\* the SQL text the function was called on
ScopeInput == IF pc = "raw" THEN query ELSE valRes.val
FirewallInput == IF pc = "raw" THEN query ELSE scopeRes.val

PlainSelect(sql) ==
    sql # EmptyText /\ sql.kind = "select" /\ sql.stmts = 1 /\ ~sql.comment /\ ~sql.keyword

(***************************************************************************)
(* C1: a plan over ticket or ticket_item taken through inject, build,      *)
(* validate, scope check and firewall ends with SQL containing the         *)
(* equality <ticket alias>.customer_id = caller's tenant id, or a step     *)
(* raises.                                                                 *)
(***************************************************************************)
C1_PipelineScopedOrRaises ==
    (pc = "done" /\ tables_in_plan(plan) \cap {"ticket", "ticket_item"} # {})
        => HasTenantEquality(fwRes.val, customer_id.v)

(***************************************************************************)
(* C2: enforce_customer_scope accepts a query over ticket only if some EQ  *)
(* or IN node compares ticket.customer_id with integer literals and every  *)
(* such literal is the caller's tenant id.                                 *)
(***************************************************************************)
C2_ScopeCheckAcceptsOnlyTenantFilter ==
    (scopeRes.ok /\ "ticket" \in TableNames(scopeRes.val))
        => /\ customer_id # PyNone
           /\ ScopeComparisons(scopeRes.val, "ticket", "customer_id") # {}
           /\ \A S \in ScopeComparisons(scopeRes.val, "ticket", "customer_id") :
                 S = {customer_id.v}

C2_Witness ==
    /\ pc = "raw"
    /\ scopeRes.ok
    /\ "ticket" \in TableNames(query)
    /\ \E i \in DOMAIN query.where : query.where[i].op = "in"
    /\ \E i \in DOMAIN query.where : query.where[i].op = "="

(***************************************************************************)
(* C3: run_sql_firewall rejects a query with an aggregate over ticket,     *)
(* ticket_item or customer that has no filter naming the caller's tenant   *)
(* id, while validate_and_prepare accepts such a query when it is a single *)
(* SELECT without comments or forbidden keywords.                          *)
(***************************************************************************)
UnscopedAggregate(sql) ==
    /\ PlainSelect(sql)
    /\ sql.agg
    /\ TableNames(sql) \cap {"ticket", "ticket_item", "customer"} # {}
    /\ ~MentionsTenant(sql, customer_id)

C4_FirewallAloneRejectsUnscopedTicket ==
    (/\ pc = "raw"
     /\ fwRes # NotCalled
     /\ PlainSelect(query)
     /\ customer_id # PyNone
     /\ "ticket" \in TableNames(query)
     /\ ~MentionsTenant(query, customer_id))
        => ~fwRes.ok

(***************************************************************************)
(* C5: run_sql_firewall rejects every query one of whose table names       *)
(* starts, case-insensitively, with a forbidden prefix, whatever filter    *)
(* the query carries.                                                      *)
(***************************************************************************)
ForbiddenPrefixes ==
    {"finance", "hr", "admin", "analytics", "knowledge", "golden", "canary"}

NamesForbiddenTable(sql) ==
    /\ sql # EmptyText
    /\ \E i \in DOMAIN sql.tables : \E pre \in ForbiddenPrefixes :
          /\ Len(sql.tables[i].name) >= Len(pre)
          /\ Lower(SubSeq(sql.tables[i].name, 1, Len(pre))) = pre

C5_FirewallRejectsForbiddenPrefix ==
    (fwRes # NotCalled /\ NamesForbiddenTable(FirewallInput)) => ~fwRes.ok

C5_Witness ==
    /\ pc = "raw"
    /\ query # EmptyText
    /\ fwRes # NotCalled /\ ~fwRes.ok
    /\ \E i \in DOMAIN query.tables : query.tables[i].name = "Finance_Report"
    /\ \E i \in DOMAIN query.tables : Lower(query.tables[i].name) = "ticket"
    /\ customer_id = PyInt(1)
    /\ HasTenantEquality(query, 1)

(***************************************************************************)
(* C6: the scope check followed by the firewall rejects a query over the   *)
(* user table unless an EQ or IN filter compares user.id with the caller's *)
(* user_id.                                                                *)
(***************************************************************************)
C6_UserTableRequiresUserFilter ==
    (/\ pc = "raw"
     /\ scopeRes.ok
     /\ fwRes.ok
     /\ user_id # PyNone
     /\ "user" \in TableNames(query))
        => /\ ScopeComparisons(query, "user", "id") # {}
           /\ \A S \in ScopeComparisons(query, "user", "id") : S = {user_id.v}

(***************************************************************************)
(* C7: a plan returned by inject_mandatory_scope whose tables contain      *)
(* ticket has the filter customer_id = caller's tenant id on the alias     *)
(* ticket has in the returned plan.  Stated for input plans whose filter   *)
(* values are integers or lists, the values the plan generator is asked    *)
(* for.                                                                    *)
(***************************************************************************)
IntegerFilterValues(p) ==
    \A i \in DOMAIN p.filters : p.filters[i].value.k \in {"int", "list"}

HasTenantFilter(p, cid) ==
    LET alias_map == _build_alias_map(p)
    IN \E i \in DOMAIN p.filters :
          /\ Lower(_resolve(alias_map, p.filters[i].table)) = Lower(alias_map["ticket"])
          /\ Lower(p.filters[i].column) = "customer_id"
          /\ p.filters[i].operator = "="
          /\ p.filters[i].value = cid

C7_ReturnedTicketPlanIsScoped ==
    (/\ scoped.ok
     /\ customer_id # PyNone
     /\ IntegerFilterValues(plan)
     /\ "ticket" \in tables_in_plan(scoped.val))
        => HasTenantFilter(scoped.val, customer_id)

(***************************************************************************)
(* C8: with customer_id = None inject_mandatory_scope never returns a plan *)
(* over ticket, ticket_item or customer; it raises QueryPlanError.         *)
(***************************************************************************)
C8_NoTenantIdNoTenantTable ==
    (scoped # NotCalled /\ customer_id = PyNone /\ scoped.ok)
        => tables_in_plan(scoped.val) \cap {"ticket", "ticket_item", "customer"} = {}

(***************************************************************************)
(* C9: inject_mandatory_scope raises QueryPlanError when the plan          *)
(* references the user table and user_id is None.                          *)
(***************************************************************************)
C9_UserTableNeedsUserId ==
    (scoped # NotCalled /\ user_id = PyNone /\ "user" \in tables_in_plan(plan))
        => (~scoped.ok /\ scoped.exc = "QueryPlanError")

(***************************************************************************)
(* C10 as stated: for a plan over ticket and its ticket_item / product     *)
(* joins the returned filter list is exactly the single filter             *)
(* <ticket alias>.customer_id = caller's tenant id.                        *)
(***************************************************************************)
TicketPlan(p) ==
    /\ "ticket" \in tables_in_plan(p)
    /\ tables_in_plan(p) \subseteq {"ticket", "ticket_item", "product"}

TenantFilterOf(p, cid) ==
    FilterSpec(_build_alias_map(p)["ticket"], "customer_id", "=", cid)

C10_OnlyTheTenantFilter ==
    (scoped.ok /\ TicketPlan(plan))
        => scoped.val.filters = <<TenantFilterOf(scoped.val, customer_id)>>

(***************************************************************************)
(* C10 amended: the returned filter list holds no filter on a column other *)
(* than customer_id: it is the input's filters on a column named           *)
(* customer_id, in their order, followed by at most one appended filter,   *)
(* <ticket alias>.customer_id = caller's tenant id; when the input has no  *)
(* filter on customer_id it is exactly that single filter.                 *)
(***************************************************************************)
OnCustomerId(f) == Lower(f.column) = "customer_id"

C10_OnlyCustomerIdFilters ==
    (scoped.ok /\ TicketPlan(plan))
        => LET kept == SelectSeq(plan.filters, OnCustomerId)
               tf == TenantFilterOf(scoped.val, customer_id)
           IN /\ scoped.val.filters \in {kept, Append(kept, tf)}
              /\ kept = <<>> => scoped.val.filters = <<tf>>

C10_Witness ==
    /\ scoped.ok
    /\ TicketPlan(plan)
    /\ \E i \in DOMAIN plan.filters : plan.filters[i].column = "ticket_id"
    /\ \E i \in DOMAIN plan.filters :
          plan.filters[i].operator = "=" /\ plan.filters[i].value = PyInt(2)
    /\ customer_id = PyInt(1)
    /\ Len(scoped.val.filters) = 2

(***************************************************************************)
(* C11: whenever inject_mandatory_scope returns a plan for a plan whose    *)
(* base table is ticket_item or product (any base alias, any joins), the   *)
(* returned plan has base_table ticket and base_alias t; so the plan that  *)
(* the workflow hands to build_sql_from_plan is never anchored on          *)
(* ticket_item or product.                                                 *)
(***************************************************************************)
(***************************************************************************)
(* The cache on its own: callers of two tenants store, look up and clear   *)
(* results while the clock advances.                                       *)
(***************************************************************************)
MaxClock == 2

MaxGets == 2

\* the rows a caller stores: what the statement returned for that tenant
Rows(sql, cid) == [k |-> "rows", sql |-> sql, customer_id |-> cid]

CacheCall(op, sql, cid, result, log) == [op |-> op, sql |-> sql, customer_id |-> cid, result |-> result, log |-> log]

CacheInit ==
    /\ pc = "cache"
    /\ plan = NoPlan
    /\ query = EmptyText
    /\ customer_id = PyNone
    /\ user_id = PyNone
    /\ scoped = NotCalled
    /\ built = NotCalled
    /\ valRes = NotCalled
    /\ scopeRes = NotCalled
    /\ fwRes = NotCalled
    /\ NoParse
    /\ NoFix
    /\ NoCache
    /\ NoAgent

CacheSet ==
    /\ pc = "cache"
    /\ \E sql \in CachedStatements, cid \in Tenants :
          LET stored == set(cache, clock, sql, cid, Rows(sql, cid))
          IN /\ cache' = stored.store
             /\ got' = CacheCall("set", sql, cid, PyNone, stored.log)
    /\ UNCHANGED <<pipeVars, parseVars, fixVars, agentVars, clock, hits, misses>>

CacheGet ==
    /\ pc = "cache"
    /\ hits + misses < MaxGets
    /\ \E sql \in CachedStatements, cid \in Tenants :
          LET r == get(cache, clock, hits, misses, sql, cid)
          IN /\ cache' = r.store
             /\ hits' = r.hits
             /\ misses' = r.misses
             /\ got' = CacheCall("get", sql, cid, r.result, r.log)
    /\ UNCHANGED <<pipeVars, parseVars, fixVars, agentVars, clock>>

ClearForCustomer ==
    /\ pc = "cache"
    /\ \E cid \in Tenants :
          /\ cache' = clear_for_customer(cache, cid)
          /\ got' = CacheCall("clear_for_customer", "", cid, PyNone, "Cleared entries for customer")
    /\ UNCHANGED <<pipeVars, parseVars, fixVars, agentVars, clock, hits, misses>>

ClearAll ==
    /\ pc = "cache"
    /\ cache' = <<>>
    /\ hits' = 0
    /\ misses' = 0
    /\ got' = CacheCall("clear_all", "", 0, PyNone, "Cleared all entries")
    /\ UNCHANGED <<pipeVars, parseVars, fixVars, agentVars, clock>>

Tick ==
    /\ pc = "cache"
    /\ clock < MaxClock
    /\ clock' = clock + 1
    /\ UNCHANGED <<pipeVars, parseVars, fixVars, agentVars, cache, hits, misses, got>>

CacheNext ==
    \/ CacheSet
    \/ CacheGet
    \/ ClearForCustomer
    \/ ClearAll
    \/ Tick

CacheSpec == CacheInit /\ [][CacheNext]_vars

(***************************************************************************)
(* Fifth state machine: run_sql_agent serving requests.  A request is at   *)
(* one of the calls it awaits (the schema retrieval, the logical plan, the *)
(* plan generation, the database, the correction, the formatting); an      *)
(* action is the code from the return of that call to the next await or    *)
(* to the return of run_sql_agent.  The cache is the one object the        *)
(* requests share.  None is written "" for last_error, which the code      *)
(* reads only after an assignment or as  last_error or "" .                *)
(***************************************************************************)
\* how many requests are served, at most, at the same time
MaxRequests == 2

\* a reply of the model to a request for a plan, as what the two callers of
\* the model make of it: the plan or the exception of _generate_json_plan
\* (the first plan of a request) and of _generate_corrected_plan (a later one)
Answer(reply) ==
    Then(IF reply.kind = "text" THEN parse_query_plan(reply.text) ELSE NotCalled, LAMBDA made :
           [first |-> _generate_json_plan(reply, made), later |-> _generate_corrected_plan(reply, made)])

\* a request as run_sql_agent starts on it, with the replies the model can
\* give to it and whether the calls around the database can fail
Request(cid, uid, replies, faults) ==
    [pc |-> "schema", customer_id |-> cid, user_id |-> uid,
     replies |-> {Answer(reply) : reply \in {Replies[n] : n \in replies}}, faults |-> faults,
     attempt |-> 0, exec_attempt |-> 0, plan |-> PyNone, sql |-> PyNone, last_error |-> "",
     rows |-> PyNone, result |-> PyNone, execs |-> 0, corrections |-> 0, regenerations |-> 0]

\* the dict run_sql_agent returns (the two timings of the metadata of a
\* successful run are left out), and an exception that leaves it
Returned(content, sql, plan0, metadata) ==
    [kind |-> "returned", content |-> content, sql |-> sql, plan |-> plan0, metadata |-> metadata]

Escaped(exc, msg) == [kind |-> "raised", exc |-> exc, msg |-> msg]

ErrorMetadata(error) == [error |-> error, row_count |-> 0]

\* model_dump(exclude_none=True) of the plan: the fields that are not None
_convert_plan_to_dict(p) ==
    IF p = PyNone THEN PyNone
    ELSE [f \in (DOMAIN p \ (IF p.offset = PyNone THEN {"offset"} ELSE {})) |-> p[f]]

\* what conn.fetch gives: the rows of the statement in the tenant's context;
\* supported says whether every value is of a type _json_default converts
Fetched(sql, cid, count, supported) ==
    [k |-> "rows", sql |-> sql, customer_id |-> cid, count |-> count, supported |-> supported]

Finish(r, result) == [r EXCEPT !.pc = "done", !.result = result]

\* the results of the awaited calls
SchemaOutcomes(r) == IF r.faults THEN {"ok", "SchemaRAGError", "Exception"} ELSE {"ok"}

ChatOutcomes(r) == IF r.faults THEN {"text", "empty", "Exception"} ELSE {"text"}

FetchOutcomes(r) == IF r.faults THEN {"rows", "none", "interval", "error"} ELSE {"rows", "error"}

\* Step 4 up to the formatting call: _serialize_rows raises TypeError on a
\* value of a type that _json_default does not know
Serialize(r) ==
    IF r.rows.supported THEN [r EXCEPT !.pc = "format"]
    ELSE Finish(r, Escaped("TypeError", "Object of type timedelta is not JSON serializable"))

\* the head of an iteration of the execution loop: the cache lookup, and on
\* a miss the call of _execute_sql
Lookup(r, store, now, h, m) ==
    LET cached == get(store, now, h, m, StatementText(r.sql), r.customer_id)
    IN [cache |-> cached.store, hits |-> cached.hits, misses |-> cached.misses,
        request |-> IF cached.result # PyNone
                    THEN Serialize([r EXCEPT !.rows = cached.result])
                    ELSE [r EXCEPT !.pc = "execute", !.execs = @ + 1]]

AgentFrame == UNCHANGED <<pipeVars, parseVars, fixVars, clock, got>>

\* Step 0, lines 287-308
SchemaRetrieved(i) ==
    /\ req[i].pc = "schema"
    /\ \E outcome \in SchemaOutcomes(req[i]) :
          req' = [req EXCEPT ![i] =
                    CASE outcome = "ok" -> [@ EXCEPT !.pc = "logical"]
                      [] outcome = "SchemaRAGError" ->
                            Finish(@, Returned("Schema retrieval failed. The sql-agent collection may not be populated. Please run: python scripts/load_sql_schema_embeddings.py",
                                               PyNone, PyNone, ErrorMetadata("collection is empty")))
                      [] OTHER ->
                            Finish(@, Returned("Schema retrieval encountered an unexpected error. Please check the logs.",
                                               PyNone, PyNone, ErrorMetadata("connection refused")))]
    /\ UNCHANGED <<cache, hits, misses>>
    /\ AgentFrame

\* Step 1, lines 310-324
LogicalPlanGenerated(i) ==
    /\ req[i].pc = "logical"
    /\ \E outcome \in ChatOutcomes(req[i]) :
          req' = [req EXCEPT ![i] =
                    IF outcome = "Exception"
                    THEN Finish(@, Returned("I couldn't create a query plan for that. Please try rephrasing.",
                                            PyNone, PyNone, ErrorMetadata("chat failed")))
                    ELSE [@ EXCEPT !.pc = "generate"]]
    /\ UNCHANGED <<cache, hits, misses>>
    /\ AgentFrame

\* the reply of the model to a request for a plan, in the loop of Step 2
\* (pc = "generate") or after a failed execution (pc = "correct"): the pass
\* from the reply to SQL, then in Step 2 the retry or the return on an
\* exception and after the break the first cache lookup of Step 3, and in a
\* correction the return on an exception or the cache lookup of the next
\* iteration
PlanReceived(i) ==
    /\ req[i].pc \in {"generate", "correct"}
    /\ \E reply \in req[i].replies :
       \E out \in {PlanToSql(IF req[i].pc = "generate" /\ req[i].attempt = 0 THEN reply.first ELSE reply.later,
                               PyInt(req[i].customer_id), req[i].user_id, req[i].plan, req[i].sql,
                               req[i].pc = "correct")} :
          LET r0 == req[i]
              r1 == [r0 EXCEPT !.plan = out.plan, !.sql = out.sql,
                               !.regenerations = IF r0.pc = "generate" /\ r0.attempt > 0 THEN @ + 1 ELSE @,
                               !.corrections = IF r0.pc = "correct" THEN @ + 1 ELSE @,
                               !.exec_attempt = IF r0.pc = "correct" /\ out.exc.ok THEN @ + 1 ELSE @]
          IN CASE out.exc.ok ->
                    LET looked == Lookup(r1, cache, clock, hits, misses)
                    IN /\ req' = [req EXCEPT ![i] = looked.request]
                       /\ cache' = looked.cache
                       /\ hits' = looked.hits
                       /\ misses' = looked.misses
               [] ~out.exc.ok /\ r0.pc = "correct" ->
                    /\ req' = [req EXCEPT ![i] =
                                 Finish(r1, Returned("I encountered a database error. Please try rephrasing.",
                                                     out.sql, _convert_plan_to_dict(out.plan),
                                                     ErrorMetadata(r0.last_error)))]
                    /\ UNCHANGED <<cache, hits, misses>>
               [] ~out.exc.ok /\ r0.pc = "generate" /\ out.exc.exc \in {"QueryPlanError", "SqlValidationError"} ->
                    /\ req' = [req EXCEPT ![i] =
                                 IF r0.attempt = max_correct_attempts
                                 THEN Finish([r1 EXCEPT !.last_error = out.exc.msg],
                                             Returned(out.exc.msg, PyNone, _convert_plan_to_dict(out.plan),
                                                      ErrorMetadata(out.exc.msg)))
                                 ELSE [r1 EXCEPT !.last_error = out.exc.msg, !.attempt = @ + 1]]
                    /\ UNCHANGED <<cache, hits, misses>>
               [] OTHER ->
                    /\ req' = [req EXCEPT ![i] =
                                 Finish(r1, Returned("I couldn't build a safe query. Please try again.",
                                                     PyNone, PyNone, ErrorMetadata(out.exc.msg)))]
                    /\ UNCHANGED <<cache, hits, misses>>
    /\ AgentFrame

\* the return of _execute_sql: the rows are cached and serialized, or the
\* error is kept and a correction is asked for while attempts are left
Executed(i) ==
    /\ req[i].pc = "execute"
    /\ \E outcome \in FetchOutcomes(req[i]) :
          LET r0 == req[i]
              text == StatementText(r0.sql)
              rows == Fetched(text, r0.customer_id, IF outcome = "none" THEN 0 ELSE 1, outcome # "interval")
          IN IF outcome # "error"
             THEN /\ cache' = set(cache, clock, text, r0.customer_id, rows).store
                  /\ req' = [req EXCEPT ![i] = Serialize([r0 EXCEPT !.rows = rows])]
             ELSE /\ req' = [req EXCEPT ![i] =
                               IF r0.exec_attempt < max_correct_attempts
                               THEN [r0 EXCEPT !.last_error = "relation does not exist", !.pc = "correct"]
                               ELSE Finish([r0 EXCEPT !.last_error = "relation does not exist"],
                                           Returned("I encountered a database error. Please try rephrasing or simplifying your question.",
                                                    r0.sql, _convert_plan_to_dict(r0.plan),
                                                    ErrorMetadata("relation does not exist")))]
                  /\ UNCHANGED cache
    /\ UNCHANGED <<hits, misses>>
    /\ AgentFrame

\* Step 4 from the reply of the formatting call on
Formatted(i) ==
    /\ req[i].pc = "format"
    /\ \E outcome \in ChatOutcomes(req[i]) :
          LET r0 == req[i]
              content == CASE outcome = "text" -> "You have one ticket."
                           [] outcome = "empty" -> "No results."
                           [] OTHER -> IF r0.rows.count = 0 THEN "No records found."
                                       ELSE "Found " \o IntToStr(r0.rows.count) \o " row(s)."
          IN req' = [req EXCEPT ![i] =
                       Finish(r0, Returned(content, r0.sql, _convert_plan_to_dict(r0.plan),
                                           [row_count |-> r0.rows.count]))]
    /\ UNCHANGED <<cache, hits, misses>>
    /\ AgentFrame

\* time passes between the steps of the requests
Elapse ==
    /\ pc = "agent"
    /\ clock < MaxClock
    /\ clock' = clock + 1
    /\ UNCHANGED <<pipeVars, parseVars, fixVars, agentVars, cache, hits, misses, got>>

AgentNext ==
    \/ \E i \in DOMAIN req : SchemaRetrieved(i)
    \/ \E i \in DOMAIN req : LogicalPlanGenerated(i)
    \/ \E i \in DOMAIN req : PlanReceived(i)
    \/ \E i \in DOMAIN req : Executed(i)
    \/ \E i \in DOMAIN req : Formatted(i)
    \/ Elapse

AgentIdle ==
    /\ pc = "agent"
    /\ plan = NoPlan
    /\ query = EmptyText
    /\ customer_id = PyNone
    /\ user_id = PyNone
    /\ scoped = NotCalled
    /\ built = NotCalled
    /\ valRes = NotCalled
    /\ scopeRes = NotCalled
    /\ fwRes = NotCalled
    /\ NoParse
    /\ NoFix
    /\ NoCache

\* one request, every reply and every failure of the awaited calls
AgentInit ==
    /\ AgentIdle
    /\ \E cid \in Tenants : req = <<Request(cid, PyNone, DOMAIN Replies, TRUE)>>

AgentSpec == AgentInit /\ [][AgentNext]_vars

\* the replies given to concurrent requests: the tickets, the report table
ConcurrentReplies == {1, 4}

\* concurrent requests of one or of several tenants
ConcInit ==
    /\ AgentIdle
    /\ req \in [1..MaxRequests -> {Request(cid, PyNone, ConcurrentReplies, FALSE) : cid \in Tenants}]

ConcSpec == ConcInit /\ [][AgentNext]_vars

ChildBase(p) == Lower(p.base_table) \in {"ticket_item", "product"}

C11_ChildBaseForcedToTicket ==
    /\ (scoped.ok /\ ChildBase(plan))
          => scoped.val.base_table = "ticket" /\ scoped.val.base_alias = "t"
    /\ (pc = "injected" \/ built # NotCalled) => ~ChildBase(scoped.val)

C11_Witness ==
    /\ scoped.ok
    /\ plan.base_table = "product"
    /\ plan.base_alias = "x"
    /\ plan.joins # <<>>
    /\ built.ok

(***************************************************************************)
(* C12 as stated: when inject_mandatory_scope forces the base to ticket,   *)
(* every child table the original plan referenced (its base table          *)
(* ticket_item or product, and its joined tables) appears in the returned  *)
(* plan's joins with a non-empty ON list. Input plans are those whose own  *)
(* joins all carry ON conditions.                                          *)
(***************************************************************************)
JoinsHaveOn(p) == \A i \in DOMAIN p.joins : p.joins[i].on # <<>>

ChildTablesOf(p) == tables_in_plan(p) \ {"ticket"}

JoinedWithOn(p, tb) ==
    \E i \in DOMAIN p.joins : Lower(p.joins[i].table) = tb /\ p.joins[i].on # <<>>

C12_ChildTablesStayJoined ==
    (scoped.ok /\ ChildBase(plan) /\ JoinsHaveOn(plan))
        => \A tb \in ChildTablesOf(plan) : JoinedWithOn(scoped.val, tb)

(***************************************************************************)
(* C13 as stated: for a plan whose base table is product (no joins, no     *)
(* filters) and a tenant id c, the pipeline inject_mandatory_scope,        *)
(* build_sql_from_plan, validate_and_prepare, enforce_customer_scope,      *)
(* run_sql_firewall does not fail, and the SQL it yields is anchored on    *)
(* ticket t with the joins to ticket_item ti and product p and has the     *)
(* WHERE clause t.customer_id = c and nothing else.                        *)
(***************************************************************************)
ProductOnlyPlan(p) ==
    /\ p # NoPlan
    /\ Lower(p.base_table) = "product"
    /\ p.joins = <<>>
    /\ p.filters = <<>>

C13_ProductPlanPipelineSucceeds ==
    (ProductOnlyPlan(plan) /\ customer_id # PyNone)
        => /\ pc # "failed"
           /\ pc = "done"
                => /\ fwRes.val.tables = <<TableRef("ticket", "t"),
                                           TableRef("ticket_item", "ti"),
                                           TableRef("product", "p")>>
                   /\ fwRes.val.where =
                          <<Node("=", Col("t", "customer_id"), NumLit(customer_id.v))>>

(***************************************************************************)
(* C14 as stated: constructing a QueryPlan with a string that does not     *)
(* match [A-Za-z_][A-Za-z0-9_]* and is not the literal * in a table,       *)
(* column or alias position, base_alias included, fails at construction.   *)
(* The strings taken here are non-empty and carry no surrounding white     *)
(* space.                                                                  *)
(***************************************************************************)
PlainNonIdentifier(s) == s # "" /\ Strip(s) = s /\ ~IsIdent(s) /\ s # "*"

C14_InvalidIdentifierRejected ==
    (raw.kind = "kwargs" /\ raw.position # <<"limit">> /\ PlainNonIdentifier(raw.ident)
        /\ parsed # NotCalled)
        => ~parsed.ok

(***************************************************************************)
(* C15 as stated: parse_query_plan raises QueryPlanError for every model   *)
(* output in which a filter value (a scalar, or an element of a list       *)
(* value) is a brace-delimited placeholder.                                *)
(***************************************************************************)
IsPlaceholderValue(v) == v.k = "str" /\ IsPlaceholder(Strip(v.v))

ValueHasPlaceholder(v) ==
    \/ IsPlaceholderValue(v)
    \/ v.k = "list" /\ \E j \in DOMAIN v.v : IsPlaceholderValue(v.v[j])

PayloadHasPlaceholder(o) ==
    /\ IsDict(o)
    /\ \E i \in DOMAIN DictGet(o, "filters", <<>>) :
          /\ IsDict(o.filters[i])
          /\ "value" \in DOMAIN o.filters[i]
          /\ ValueHasPlaceholder(o.filters[i].value)

OutputHasPlaceholder(text) ==
    \E i \in DOMAIN text.objects : PayloadHasPlaceholder(text.objects[i])

RaisedQueryPlanError(res) == res # NotCalled /\ ~res.ok /\ res.exc = "QueryPlanError"

C15_PlaceholderAlwaysRaises ==
    (raw.kind = "text" /\ OutputHasPlaceholder(raw.text) /\ parsed # NotCalled)
        => RaisedQueryPlanError(parsed)

(***************************************************************************)
(* C15 amended: parse_query_plan never returns a plan with a placeholder   *)
(* filter value, and it raises QueryPlanError whenever the first JSON      *)
(* object it tries (the first object of a fenced block if there is one,    *)
(* else the first object of the text) has a placeholder filter value, in   *)
(* particular whenever the output holds a single JSON object that has one. *)
(***************************************************************************)
PlanHasPlaceholder(p) ==
    \E i \in DOMAIN p.filters : ValueHasPlaceholder(p.filters[i].value)

\* the JSON objects of the text in the order they are tried
TriedObjects(text) ==
    SelectSeq([i \in DOMAIN text.fenced |-> text.objects[text.fenced[i]]] \o text.objects,
              IsDict)

C15_PlaceholderNeverParsed ==
    (raw.kind = "text" /\ parsed # NotCalled)
        => /\ parsed.ok => ~PlanHasPlaceholder(parsed.val)
           /\ (TriedObjects(raw.text) # <<>>
                 /\ PayloadHasPlaceholder(TriedObjects(raw.text)[1]))
                 => RaisedQueryPlanError(parsed)
           /\ (Len(raw.text.objects) = 1 /\ OutputHasPlaceholder(raw.text))
                 => RaisedQueryPlanError(parsed)

C15_Witness ==
    /\ raw.kind = "text"
    /\ Len(raw.text.objects) = 2
    /\ IsDict(raw.text.objects[1])
    /\ ~PayloadHasPlaceholder(raw.text.objects[1])
    /\ PayloadHasPlaceholder(raw.text.objects[2])
    /\ RaisedQueryPlanError(parsed)
    /\ parsed.msg = "Filter value contains unresolved placeholder"

(***************************************************************************)
(* C16: for every requested integer limit (negative, zero, within range,   *)
(* above the ceiling) the SQL returned by build_sql_from_plan, and the SQL *)
(* returned by validate_and_prepare on it, has exactly one LIMIT clause,   *)
(* whose value n satisfies 1 <= n <= 50; a missing or null limit gives 50. *)
(***************************************************************************)
OneLimitInRange(sql) ==
    /\ sql.limit # PyNone
    /\ sql.extra_limit = PyNone
    /\ 1 <= sql.limit.v /\ sql.limit.v <= 50

NoLimitRequested ==
    \/ raw.kind = "kwargs" /\ DictGet(raw.data, "limit", PyNone) = PyNone
    \/ /\ raw.kind = "text"
       /\ \A i \in DOMAIN raw.text.objects :
             IsDict(raw.text.objects[i]) => DictGet(raw.text.objects[i], "limit", PyNone) = PyNone

C16_LimitAlwaysWithinRange ==
    /\ built.ok => OneLimitInRange(built.val)
    /\ valRes.ok => OneLimitInRange(valRes.val)
    /\ (built.ok /\ NoLimitRequested) => built.val.limit = PyInt(50)
    /\ (valRes.ok /\ NoLimitRequested) => valRes.val.limit = PyInt(50)

C16_Witness ==
    /\ raw.kind = "text"
    /\ Len(raw.text.objects) = 1
    /\ DictGet(raw.text.objects[1], "limit", PyNone) = PyInt(-5)
    /\ DictGet(raw.text.objects[1], "offset", PyNone) = PyInt(10)
    /\ built.ok
    /\ valRes.ok
    /\ valRes.val.limit = PyInt(1)
    /\ valRes.val.offset = PyInt(10)

(***************************************************************************)
(* C17: validate_and_fix_group_by is idempotent: for every plan p (any     *)
(* combination of aggregates, select entries including wildcards, and      *)
(* group_by entries) correcting the corrected plan gives the corrected     *)
(* plan again.                                                             *)
(***************************************************************************)
C17_CorrectorIdempotent == refixed # NoPlan => refixed = fixed

C17_Witness ==
    /\ refixed # NoPlan
    /\ refixed = fixed
    /\ plan.group_by # <<>>
    /\ Len(fixed.group_by) > Len(plan.group_by)
    /\ \E i \in DOMAIN plan.select : plan.select[i].column = "*"

(***************************************************************************)
(* C18 as stated: for every plan with at least one aggregate (a count      *)
(* aggregate included) and non-wildcard select columns,                    *)
(* validate_and_fix_group_by returns a plan whose group_by contains every  *)
(* one of those select columns and keeps the group_by entries that were    *)
(* already there; for a plan counting all rows with select columns id and  *)
(* customer_id and an empty group_by the result has exactly those two      *)
(* group_by entries and the compiled SQL has a GROUP BY clause.            *)
(***************************************************************************)
NonWildcardColumns(p) ==
    {<<Lower(p.select[i].table), Lower(p.select[i].column)>> :
        i \in {j \in DOMAIN p.select : p.select[j].column # "*"}}

GroupByColumns(p) ==
    {<<Lower(p.group_by[i].table), Lower(p.group_by[i].column)>> : i \in DOMAIN p.group_by}

CountPlanOfTheTest(p) ==
    /\ p.aggregates = <<AggregateSpec("count", "*")>>
    /\ p.select = <<SelectField("t", "id"), SelectField("t", "customer_id")>>
    /\ p.group_by = <<>>

C18_SelectColumnsGrouped ==
    /\ (fixed # NoPlan /\ plan.aggregates # <<>> /\ NonWildcardColumns(plan) # {})
          => /\ NonWildcardColumns(plan) \subseteq GroupByColumns(fixed)
             /\ SubSeq(fixed.group_by, 1, Len(plan.group_by)) = plan.group_by
    /\ (fixed # NoPlan /\ CountPlanOfTheTest(plan))
          => fixed.group_by = <<GroupByField("t", "id"), GroupByField("t", "customer_id")>>
    /\ (built.ok /\ CountPlanOfTheTest(plan)) => built.val.group_by # <<>>

(***************************************************************************)
(* C19: a lookup for one tenant never returns rows stored for another: a   *)
(* get that returns rows returns rows that a set of the same tenant stored *)
(* under a statement with the same normalized text.                        *)
(***************************************************************************)
GotRows == got # NotCalled /\ got.op = "get" /\ got.result # PyNone

C19_GetReturnsOwnRows ==
    GotRows =>
        /\ got.result.customer_id = got.customer_id
        /\ NormalizedStatement[got.result.sql] = NormalizedStatement[got.sql]

\* tenant 2 looks up, and misses, a statement the cache holds for tenant 1
C19_Witness ==
    /\ got # NotCalled
    /\ got.op = "get"
    /\ got.customer_id = 2
    /\ got.result = PyNone
    /\ \E i \in DOMAIN cache :
          /\ cache[i].results.customer_id = 1
          /\ clock - cache[i].timestamp < CacheTtl
          /\ NormalizedStatement[cache[i].results.sql] = NormalizedStatement[got.sql]
          /\ cache[i].results.sql # got.sql

(***************************************************************************)
(* C20: right after clear_for_customer(c) the cache holds nothing for c:   *)
(* a get for c of any statement stored before is a miss.                   *)
(***************************************************************************)
JustCleared == got # NotCalled /\ got.op = "clear_for_customer"

C20_ClearedTenantMisses ==
    JustCleared =>
        /\ \A i \in DOMAIN cache : cache[i].results.customer_id # got.customer_id
        /\ \A sql \in CachedStatements :
              get(cache, clock, hits, misses, sql, got.customer_id).result = PyNone

(***************************************************************************)
(* C21: a get returns the stored rows exactly when the dict holds an entry *)
(* under the key whose age is strictly less than the TTL, and then leaves  *)
(* the dict alone; otherwise it returns None and counts a miss, and an     *)
(* entry found expired is gone from the dict afterwards.                   *)
(***************************************************************************)
GetStep == hits' + misses' = hits + misses + 1

FreshEntry(i) == i # 0 /\ clock - cache[i].timestamp < CacheTtl

GetFollowsTtl ==
    LET i == KeyIndex(cache, get_cache_key(got'.sql, got'.customer_id))
    IN /\ got'.op = "get"
       /\ IF FreshEntry(i)
          THEN /\ got'.result = cache[i].results
               /\ hits' = hits + 1
               /\ cache' = cache
          ELSE /\ got'.result = PyNone
               /\ misses' = misses + 1
               /\ KeyIndex(cache', get_cache_key(got'.sql, got'.customer_id)) = 0
               /\ Len(cache') = Len(cache) - (IF i # 0 THEN 1 ELSE 0)

C21_GetHonoursTtl == [][GetStep => GetFollowsTtl]_vars

\* the only miss so far found an entry that had expired and removed it,
\* after an earlier lookup had hit
C21_Witness ==
    /\ got # NotCalled
    /\ got.op = "get"
    /\ got.result = PyNone
    /\ got.log = "Expired entry removed"
    /\ hits = 1
    /\ misses = 1
    /\ cache = <<>>

(***************************************************************************)
(* C22: the dict never holds more than max_size entries; a set that would  *)
(* exceed max_size removes one entry, one with the least timestamp, and    *)
(* the entry it has just written stays.                                    *)
(***************************************************************************)
SetStep == got' # NotCalled /\ got'.op = "set" /\ (got' # got \/ cache' # cache)

Written == [key |-> get_cache_key(got'.sql, got'.customer_id), results |-> Rows(got'.sql, got'.customer_id), timestamp |-> clock]

IsOldest(i) == \A j \in DOMAIN cache : cache[i].timestamp <= cache[j].timestamp

SetEvictsOldest ==
    LET i == KeyIndex(cache, Written.key)
    IN /\ \E j \in DOMAIN cache' : cache'[j] = Written
       /\ IF i = 0 /\ Len(cache) = CacheMaxSize
          THEN \E e \in DOMAIN cache : IsOldest(e) /\ cache' = DelAt(cache, e) \o <<Written>>
          ELSE IF i = 0 THEN cache' = Append(cache, Written)
          ELSE cache' = [cache EXCEPT ![i] = Written]

C22_SizeBoundedOldestEvicted == [][Len(cache') <= CacheMaxSize /\ (SetStep => SetEvictsOldest)]_vars

\* a set has just evicted an entry from a full dict, and what it wrote is there
C22_Witness ==
    /\ got # NotCalled
    /\ got.op = "set"
    /\ got.log = "Evicted oldest entry"
    /\ Len(cache) = CacheMaxSize
    /\ cache[Len(cache)].key = get_cache_key(got.sql, got.customer_id)
    /\ \E i \in DOMAIN cache : cache[i].timestamp < cache[Len(cache)].timestamp

(***************************************************************************)
(* Vocabulary of the workflow properties                                   *)
(***************************************************************************)
Done(i) == req[i].pc = "done"

HasReturned(i) == Done(i) /\ req[i].result.kind = "returned"

\* the request ended in one of the returns of the failure handlers
HasFailed(i) == HasReturned(i) /\ req[i].rows = PyNone

\* the three checks accept the text for the caller and hand it back as it is
ChainAccepts(sql, cid, uid) ==
    LET prepared == validate_and_prepare(sql)
    IN /\ prepared.ok
       /\ LET scope == enforce_customer_scope(prepared.val, PyInt(cid), uid)
          IN /\ scope.ok
             /\ run_sql_firewall(scope.val, PyInt(cid), uid) = Ok(sql)

(***************************************************************************)
(* C23: within a request the plan is generated again at most once after a  *)
(* rejection by parsing, scope injection, compilation, validation, scope   *)
(* check or firewall; the second rejection ends the request.               *)
(***************************************************************************)
C23_AtMostOneRegeneration ==
    \A i \in DOMAIN req : req[i].regenerations <= 1

(***************************************************************************)
(* C24: within a request _execute_sql is called at most 3 times and a plan *)
(* is corrected at most 2 times; every call but the first follows exactly  *)
(* one correction whose SQL the three checks accepted, and the failure of  *)
(* the third call ends the request with an error result.                   *)
(***************************************************************************)
C24_ExecutionBounded ==
    \A i \in DOMAIN req :
        /\ req[i].execs <= 3
        /\ req[i].corrections <= 2
        /\ req[i].corrections <= req[i].execs
        /\ req[i].pc \in {"execute", "correct"} => req[i].execs = req[i].corrections + 1
        /\ req[i].pc = "execute" => ChainAccepts(req[i].sql, req[i].customer_id, req[i].user_id)
        /\ req[i].pc = "correct" => req[i].execs <= 2
        /\ (HasFailed(i) /\ req[i].execs = 3 /\ req[i].corrections = 2) =>
              /\ "error" \in DOMAIN req[i].result.metadata
              /\ req[i].exec_attempt = 2

C24_Witness ==
    \E i \in DOMAIN req :
        /\ HasFailed(i)
        /\ req[i].execs = 3
        /\ req[i].corrections = 2
        /\ req[i].result.content = "I encountered a database error. Please try rephrasing or simplifying your question."

(***************************************************************************)
(* C25: run_sql_agent ends every request by returning a dict with content, *)
(* sql, plan and metadata, whichever step failed; no exception leaves it.  *)
(* The metadata of a result returned by a failure handler holds the key    *)
(* error, that of a successful run does not.                               *)
(***************************************************************************)
C25_AlwaysReturnsMarkedResult ==
    \A i \in DOMAIN req :
        Done(i) =>
            /\ req[i].result.kind = "returned"
            /\ {"content", "sql", "plan", "metadata"} \subseteq DOMAIN req[i].result
            /\ HasFailed(i) <=> "error" \in DOMAIN req[i].result.metadata

(***************************************************************************)
(* C26: the content of a result returned by a failure handler is one of    *)
(* the fixed messages written in run_sql_agent, and neither the text of    *)
(* the exception that was caught nor the SQL is part of the result.        *)
(***************************************************************************)
UserMessages ==
    { "Schema retrieval failed. The sql-agent collection may not be populated. Please run: python scripts/load_sql_schema_embeddings.py",
      "Schema retrieval encountered an unexpected error. Please check the logs.",
      "I couldn't create a query plan for that. Please try rephrasing.",
      "I couldn't build a safe query. Please try again.",
      "I couldn't generate a valid query.",
      "I encountered a database error. Please try rephrasing.",
      "I encountered a database error. Please try rephrasing or simplifying your question." }

C26_FixedMessagesOnly ==
    \A i \in DOMAIN req :
        HasFailed(i) =>
            /\ req[i].result.content \in UserMessages
            /\ req[i].result.sql = PyNone
            /\ req[i].last_error # "" =>
                  /\ req[i].result.content # req[i].last_error
                  /\ req[i].result.metadata.error # req[i].last_error

(***************************************************************************)
(* C27: a result that run_sql_agent returns holds no SQL text that         *)
(* validate_and_prepare, enforce_customer_scope or run_sql_firewall        *)
(* rejected: its sql is None, or a text that passed all three checks.      *)
(***************************************************************************)
C27_NoRejectedSqlReturned ==
    \A i \in DOMAIN req :
        (HasReturned(i) /\ req[i].result.sql # PyNone) =>
            ChainAccepts(req[i].result.sql, req[i].customer_id, req[i].user_id)

(***************************************************************************)
(* C28: parse_query_plan returns the plan of the first extracted candidate *)
(* that validates as a QueryPlan, and raises QueryPlanError only when no   *)
(* candidate validates: a failing candidate never hides a later valid one. *)
(***************************************************************************)
CandidateValidates(payload) ==
    LET normalised == _normalize_query_plan_payload(payload)
    IN normalised.ok /\ model_validate(normalised.val).ok

PlanOfCandidate(payload) == model_validate(_normalize_query_plan_payload(payload).val)

FirstValidCandidate(payloads) ==
    CHOOSE i \in DOMAIN payloads :
        CandidateValidates(payloads[i]) /\ \A j \in 1..(i - 1) : ~CandidateValidates(payloads[j])

C28_FirstValidCandidateWins ==
    (raw.kind = "text" /\ parsed # NotCalled /\ _extract_json(raw.text).ok) =>
        LET payloads == _extract_json(raw.text).val
        IN IF \E i \in DOMAIN payloads : CandidateValidates(payloads[i])
           THEN parsed = PlanOfCandidate(payloads[FirstValidCandidate(payloads)])
           ELSE ~parsed.ok /\ parsed.exc = "QueryPlanError"

(***************************************************************************)
(* C29: however the steps of concurrent requests interleave, the text a    *)
(* request hands to _execute_sql is one that validate_and_prepare,         *)
(* enforce_customer_scope and run_sql_firewall accepted for the tenant of  *)
(* that request; a cache entry is filed under the statement and the tenant *)
(* whose rows it holds, that statement being one the checks accept for     *)
(* that tenant; and the rows a request holds are those of its own          *)
(* statement in its own tenant's context.                                  *)
(***************************************************************************)
ExecutesCheckedSql(i) ==
    req[i].pc = "execute" => ChainAccepts(req[i].sql, req[i].customer_id, req[i].user_id)

EntryIsOwnRows(entry) ==
    /\ entry.key = get_cache_key(entry.results.sql, entry.results.customer_id)
    /\ \E sql \in WorkflowQueries :
          /\ StatementText(sql) = entry.results.sql
          /\ ChainAccepts(sql, entry.results.customer_id, PyNone)

HoldsOwnRows(i) ==
    req[i].rows # PyNone =>
        /\ req[i].rows.customer_id = req[i].customer_id
        /\ req[i].rows.sql = StatementText(req[i].sql)
        /\ ChainAccepts(req[i].sql, req[i].customer_id, req[i].user_id)

C29_OnlyCheckedSqlExecutedOrCached ==
    /\ \A i \in DOMAIN req : ExecutesCheckedSql(i) /\ HoldsOwnRows(i)
    /\ \A n \in DOMAIN cache : EntryIsOwnRows(cache[n])

\* a request is at the database while the cache holds the rows that a
\* request of another tenant stored for its statement
C29_Witness ==
    \E i, j \in DOMAIN req :
        /\ req[i].pc = "execute"
        /\ req[i].customer_id # req[j].customer_id
        /\ req[j].rows # PyNone
        /\ \E n \in DOMAIN cache : cache[n].results = req[j].rows

(***************************************************************************)
(* C30: in every SQL text that enforce_customer_scope accepts for tenant   *)
(* c, each instance of the ticket table in the FROM and JOIN clauses is    *)
(* held to customer_id = c by a conjunct of the WHERE clause (an equality, *)
(* or a membership in a list that holds nothing but c).                    *)
(***************************************************************************)
TicketInstances(sql) == {i \in DOMAIN sql.tables : Lower(sql.tables[i].name) = "ticket"}

\* e is customer_id of the instance t: qualified by its alias or name, or
\* unqualified (which the database resolves to the one instance, or rejects)
IsTenantColumnOf(e, t, sql) ==
    /\ e.k = "col"
    /\ Lower(e.name) = "customer_id"
    /\ (e.table = "" \/ Lower(e.table) = Lower(AliasOrName(sql.tables[t])))

IsTenantLiteral(e, c) == IsIntLit(e) /\ IntLitVal(e) = c

HoldsInstanceToTenant(n, t, sql, c) ==
    /\ ~n.neg
    /\ \/ /\ n.op = "="
          /\ \/ IsTenantColumnOf(n.l, t, sql) /\ IsTenantLiteral(n.r, c)
             \/ IsTenantColumnOf(n.r, t, sql) /\ IsTenantLiteral(n.l, c)
       \/ /\ n.op = "in"
          /\ IsTenantColumnOf(n.l, t, sql)
          /\ n.r # <<>>
          /\ \A i \in DOMAIN n.r : IsTenantLiteral(n.r[i], c)

C30_EveryTicketInstanceScoped ==
    (scopeRes.ok /\ customer_id # PyNone) =>
        \A t \in TicketInstances(scopeRes.val) :
            \E j \in DOMAIN scopeRes.val.where :
                HoldsInstanceToTenant(scopeRes.val.where[j], t, scopeRes.val, customer_id.v)

====
